---- MODULE Spec2Model ----
(***************************************************************************)
(* Voice-note processing pipeline of the WhatsApp voice translation bot.   *)
(*                                                                         *)
(* The model follows VoiceProcessor.processVoiceNote                       *)
(* (src/utils/voiceProcessor.js, lines 73-211) together with the media     *)
(* staging code it calls (src/utils/mediaHandler.js) and the monitoring    *)
(* singleton (src/utils/monitoring.js).  The two collaborators held in     *)
(* this.sttService and this.translationProcessor are called through their  *)
(* promise interface: each call either rejects or resolves with a value    *)
(* of one of the shapes the orchestrator's code distinguishes.             *)
(*                                                                         *)
(* A second specification, AdapterSpec, runs the same orchestrator with    *)
(* the two collaborators the repository wires in: GoogleSpeechToText       *)
(* (src/lib/services/whatsapp.js 340-543) and TranslationProcessor over    *)
(* GoogleTranslation (src/utils/translationProcessor.js,                   *)
(* src/unnamed/part_006).  There the external calls are those of the       *)
(* Google clients: client.recognize and one translate.translate per        *)
(* target language.  metrics and timers hold the keys processVoiceNote     *)
(* itself records; the adapters' own keys are not followed.                *)
(*                                                                         *)
(* One step of the model is one piece of code that runs between two        *)
(* suspension points (await) of the orchestrator.                          *)
(*                                                                         *)
(* Further specifications follow code around the orchestrator, each on     *)
(* its own variables: UnstageSpec (cleanupTempFile called by two callers), *)
(* ConcSpec (the file operations of two runs at the same time),            *)
(* FormatSpec (ResponseFormatter.formatTranslatedResponse), WebhookSpec    *)
(* (the routes of src/routes/webhook.js), TimerSpec (startTimer and       *)
(* endTimer of the monitoring singleton), MetricSpec (the entries          *)
(* recordMetric keeps and getMetricSummary), ValidationSpec (the           *)
(* functions of src/utils/validation.js), OverlapSpec (runs that overlap   *)
(* in time on the monitoring singleton) and DeliverySpec (the webhook's    *)
(* processVoiceNote together with the run it awaits).                      *)
(***************************************************************************)
EXTENDS Integers, Sequences, FiniteSets, TLC

\* ------------------------------------------------------------------------
\* Bounds of the model (not program constants)
\* ------------------------------------------------------------------------
MaxRuns == 1    \* number of successive runs of processVoiceNote explored
MaxLen == 1     \* longest transcript text, in characters
MaxCalls == 2   \* calls of cleanupTempFile one caller makes in sequence
MaxEntries == 2 \* most entries of a translation map given to the formatter
MaxOps == 3     \* calls of startTimer and endTimer made in sequence

\* ------------------------------------------------------------------------
\* Program constants
\* ------------------------------------------------------------------------
maxFileSize == 16000000      \* config.audio.maxFileSize
MemoryThreshold == 80        \* hasSufficientMemory: percentUsed < 80
MaxMetricEntries == 1000     \* recordMetric keeps the last 1000 entries

\* ------------------------------------------------------------------------
\* Input domains
\* ------------------------------------------------------------------------
NoBuffer == -1   \* no audioBuffer (null, undefined, or no run yet)

\* payload sizes around the two thresholds of the admission code, and the
\* 17,000,000 byte payload of the oversized-input scenario
BufferSizes ==
  {maxFileSize \div 2, maxFileSize \div 2 + 1,
   maxFileSize, maxFileSize + 1, 17000000}

\* the webhook hands over the Buffer that downloadMedia built, so a run
\* always has a buffer
Buffers == BufferSizes

\* process.memoryUsage(): heapTotal and heapUsed, in MB
HeapTotal == 100
HeapUsedSamples == {79, 80, 81}

MimeTypes ==
  {"audio/ogg", "audio/ogg; codecs=opus", "audio/wav", "audio/mp4",
   "audio/mpeg", "audio/aac", "undefined"}

Chars == {" ", "a"}

RECURSIVE SeqsUpTo(_)
SeqsUpTo(n) ==
  IF n = 0 THEN {<<>>}
  ELSE LET shorter == SeqsUpTo(n - 1)
       IN  shorter \cup
           {Append(s, c) : s \in {t \in shorter : Len(t) = n - 1}, c \in Chars}

Texts == SeqsUpTo(MaxLen)

NoLanguage == "null"
Languages == {"en-US", "undefined"}

\* values a call of this.sttService.transcribeAudioFile may resolve with
SttResponses ==
  [shape : {"string"}, text : Texts, language : {NoLanguage}]
    \cup [shape : {"object"}, text : Texts, language : Languages]
    \cup [shape : {"null", "other"}, text : {<<>>}, language : {NoLanguage}]

NoResponse == [shape |-> "none", text |-> <<>>, language |-> NoLanguage]

\* values a call of this.translationProcessor.processTranslation may
\* resolve with: the result object, or a value that is not such an object
ResultKinds == {"object", "null", "function"}

NoResult == [kind |-> "none", originalText |-> <<>>, hasTranslations |-> FALSE]

\* ------------------------------------------------------------------------
\* Error messages
\* ------------------------------------------------------------------------
NoError == "none"
ErrInsufficientMemory == "Insufficient memory available for processing this audio file"
ErrTooLarge == "Audio file too large"
ErrWriteFile == "writeFile failed"
ErrFfmpeg == "FFmpeg process exited with code 1"
ErrStt == "transcribeAudioFile rejected"
ErrUnexpectedFormat == "Unexpected transcription result format"
ErrNoText == "Unable to transcribe audio: No text detected"
ErrTranslation == "processTranslation rejected"
ErrTypeError == "TypeError: Cannot read properties"
ErrValidation == "Validation failed: object is not an object"
ErrUnlink == "unlink failed"

\* ------------------------------------------------------------------------
\* Pure helpers
\* ------------------------------------------------------------------------

\* String.prototype.trim on a text of spaces and letters
RECURSIVE TrimLeft(_)
TrimLeft(s) ==
  IF s = <<>> THEN <<>>
  ELSE IF Head(s) = " " THEN TrimLeft(Tail(s)) ELSE s

RECURSIVE TrimRight(_)
TrimRight(s) ==
  IF s = <<>> THEN <<>>
  ELSE IF s[Len(s)] = " " THEN TrimRight(SubSeq(s, 1, Len(s) - 1)) ELSE s

trim(s) == TrimRight(TrimLeft(s))

\* JavaScript truthiness of a string: the empty string is falsy
Truthy(s) == s # <<>>

\* VoiceProcessor.hasSufficientMemory: percentUsed = heapUsed/heapTotal*100,
\* return percentUsed < 80.  For heap sizes of a real process the floating
\* point quotient is below 80 exactly when the ratio is (two distinct ratios
\* differ by far more than one rounding step), so the comparison is done on
\* integers.
hasSufficientMemory(heapUsed, heapTotal) ==
  heapUsed * 100 < MemoryThreshold * heapTotal

\* NeedsMemoryCheck with >= in place of >: a buffer of exactly half the
\* maximum is checked too
NeedsMemoryCheckInclusive(buf) == buf # NoBuffer /\ 2 * buf >= maxFileSize

\* the memory check is consulted for buffers longer than maxFileSize / 2
\* (a real-number division in JavaScript)
NeedsMemoryCheck(buf) == buf # NoBuffer /\ 2 * buf > maxFileSize

\* ExceedsLimit with >= in place of >
ExceedsLimitInclusive(buf) == buf # NoBuffer /\ buf >= maxFileSize

\* ExceedsLimit comparing the byte length with the limit counted in bits
ExceedsLimitWrongUnit(buf) == buf # NoBuffer /\ buf > maxFileSize * 8

ExceedsLimit(buf) == buf # NoBuffer /\ buf > maxFileSize

\* ExtensionFor whose default case is wav
ExtensionForDefaultWav(mime) ==
  CASE mime = "audio/ogg" -> "ogg"
    [] mime = "audio/ogg; codecs=opus" -> "ogg"
    [] mime = "audio/wav" -> "wav"
    [] mime = "audio/mp4" -> "mp4"
    [] mime = "audio/mpeg" -> "mp3"
    [] OTHER -> "wav"

\* MediaHandler.processAudioBuffer: the switch on the MIME type
ExtensionFor(mime) ==
  CASE mime = "audio/ogg" -> "ogg"
    [] mime = "audio/ogg; codecs=opus" -> "ogg"
    [] mime = "audio/wav" -> "wav"
    [] mime = "audio/mp4" -> "mp4"
    [] mime = "audio/mpeg" -> "mp3"
    [] OTHER -> "ogg"

\* a path in config.audio.tempDir: audio_<id>.<ext> or audio_<id>_converted.wav
Path(id, ext, conv) == [id |-> id, ext |-> ext, conv |-> conv]
NoPath == Path(0, "none", FALSE)

\* MediaHandler.convertAudioFormat: wav, mp3 and mp4 are used as they are
IsCompatible(p) == p.ext \in {"wav", "mp3", "mp4"}
\* inputPath.replace(ext, '_converted.wav')
ConvertedPath(p) == Path(p.id, "wav", TRUE)

\* Validation.validateResponse(data, 'object') on a processTranslation value
validateResponse(r) == r.kind = "object"

\* ------------------------------------------------------------------------
\* Monitoring singleton (src/utils/monitoring.js)
\* ------------------------------------------------------------------------
TimerIds == {"voice_processing", "memory_check", "stt_processing",
             "translation_processing"}

MemoryMetricNames ==
  {"memory_rss_bytes", "memory_heap_total_bytes", "memory_heap_used_bytes",
   "memory_external_bytes", "memory_array_buffers_bytes",
   "system_free_memory_bytes", "system_total_memory_bytes",
   "system_memory_usage_percent"}

DurationMetric(id) ==
  CASE id = "voice_processing" -> "voice_processing_duration_ms"
    [] id = "memory_check" -> "memory_check_duration_ms"
    [] id = "stt_processing" -> "stt_processing_duration_ms"
    [] id = "translation_processing" -> "translation_processing_duration_ms"

MetricNames ==
  {"voice_processing_attempts", "error_count"}
    \cup {DurationMetric(id) : id \in TimerIds}
    \cup MemoryMetricNames

\* the monitoring state: running timers and, per metric name, the number
\* of entries held
Monitor(t, m) == [timers |-> t, metrics |-> m]

\* the number of entries a metric holds after one more is pushed: the
\* oldest is dropped beyond 1000
Pushed(n) == IF n + 1 > MaxMetricEntries THEN MaxMetricEntries ELSE n + 1

\* recordMetric
recordMetric(mon, name) ==
  Monitor(mon.timers, [mon.metrics EXCEPT ![name] = Pushed(@)])

startTimer(mon, id) == Monitor(mon.timers \cup {id}, mon.metrics)

\* endTimer that leaves the timer running
endTimerKeeping(mon, id) ==
  IF id \notin mon.timers THEN mon
  ELSE recordMetric(Monitor(mon.timers, mon.metrics), DurationMetric(id))

\* the value endTimer returns: 0 without a running timer, else the time
\* since the timer was started (monitoring.js 44-52, 63)
duration(mon, starts, id, now) ==
  IF id \notin mon.timers THEN 0 ELSE now - starts[id]

\* endTimer: without a running timer nothing is recorded
endTimer(mon, id) ==
  IF id \notin mon.timers THEN mon
  ELSE recordMetric(Monitor(mon.timers \ {id}, mon.metrics), DurationMetric(id))

recordError(mon) == recordMetric(mon, "error_count")

\* recordMemoryUsage: one recordMetric per memory metric
recordMemoryUsage(mon) ==
  Monitor(mon.timers,
          [n \in MetricNames |->
             IF n \in MemoryMetricNames
             THEN Pushed(mon.metrics[n])
             ELSE mon.metrics[n]])

\* ------------------------------------------------------------------------
\* GoogleSpeechToText (src/lib/services/whatsapp.js 340-543)
\* ------------------------------------------------------------------------

\* config.autoLanguageDetection.primaryLanguage
primaryLanguage == "en-US"

\* languageCode of a recognition result: a detected language, or absent
LanguageCodes == {"es-ES", NoLanguage}

\* values client.recognize may resolve with: response.results holds no
\* result or one result with its first alternative's transcript
RecognizeResponses ==
  {<<>>} \cup
  {<<[transcript |-> t, languageCode |-> l]>> : t \in Texts, l \in LanguageCodes}

NoRecognition == [text |-> <<>>, language |-> "none"]

ErrRecognize == "recognize rejected"
ErrInvalidFormat == "Validation failed: Invalid transcription result format"
ErrUnknown == "An unknown error occurred"

\* ErrorHandler.handleError(error).error: error.message || 'An unknown
\* error occurred'
handleError(message) == IF message = "" THEN ErrUnknown ELSE message

\* GoogleSpeechToText.transcribeAudio after client.recognize resolved: the
\* transcripts joined (of at most one result here) and the language of the
\* first result, or the primary language when it carries none
transcribeAudio(results) ==
  [text |-> IF results = <<>> THEN <<>> ELSE Head(results).transcript,
   language |->
     IF results # <<>> /\ Head(results).languageCode # NoLanguage
     THEN Head(results).languageCode
     ELSE primaryLanguage]

\* GoogleSpeechToText.transcribeAudioFile after transcribeAudio returned
\* result: it returns result.text alone, or throws when the text is falsy
transcribeAudioFile(result) ==
  IF Truthy(result.text)
  THEN [threw |-> FALSE, message |-> NoError, value |-> result.text]
  ELSE [threw |-> TRUE, message |-> handleError(ErrInvalidFormat),
        value |-> <<>>]

\* ------------------------------------------------------------------------
\* TranslationProcessor and GoogleTranslation
\* (src/utils/translationProcessor.js, src/unnamed/part_006)
\* ------------------------------------------------------------------------

\* config.supportedLanguages
supportedLanguages ==
  [english |-> "en", arabic |-> "ar", hindi |-> "hi", spanish |-> "es"]

\* the order of the entries of config.supportedLanguages
LanguageNames == <<"english", "arabic", "hindi", "spanish">>

\* Object.values(config.supportedLanguages)
targetLanguageCodes ==
  [i \in DOMAIN LanguageNames |-> supportedLanguages[LanguageNames[i]]]

Codes == {targetLanguageCodes[i] : i \in DOMAIN targetLanguageCodes}

\* the position of a code in the array the calls are issued from
Position(code) ==
  CHOOSE i \in DOMAIN targetLanguageCodes : targetLanguageCodes[i] = code

\* strings translate.translate may resolve with
ServiceTexts == {"", "translated"}

\* one translate.translate call: it resolves with a string or rejects
TranslateOutcomes ==
  [ok : {TRUE}, text : ServiceTexts] \cup {[ok |-> FALSE, text |-> ""]}

ErrTranslate == "translate rejected"

\* `Translation to ${lang} failed: ${error.message}` for the error that
\* translateText throws when translate.translate rejects with ErrTranslate
Marker(lang) ==
  CASE lang = "en" -> "Translation to en failed: translate rejected"
    [] lang = "ar" -> "Translation to ar failed: translate rejected"
    [] lang = "hi" -> "Translation to hi failed: translate rejected"
    [] lang = "es" -> "Translation to es failed: translate rejected"

Markers == {Marker(c) : c \in Codes}

\* an element of translationPromises: not created yet, pending, or settled
\* with the {lang, translation} of its .then or its .catch
CallIdle == [status |-> "idle", translation |-> ""]
CallPending == [status |-> "pending", translation |-> ""]
CallSettled(lang, o) ==
  IF o.ok THEN [status |-> "resolved", translation |-> o.text]
  ELSE [status |-> "rejected", translation |-> Marker(lang)]

IsSettled(c) == c.status \in {"resolved", "rejected"}

\* the value of a property that an object does not have
Undefined == "<undefined>"

\* obj[key]
Lookup(obj, key) == IF key \in DOMAIN obj THEN obj[key] ELSE Undefined

\* a || b on strings and undefined: the empty string is falsy
JsOr(a, b) == IF a \in {Undefined, ""} THEN b ELSE a

\* translateTextMultiple after Promise.all resolved with results: the
\* object keyed by the lang of every result
translateTextMultiple(results) ==
  [c \in Codes |-> results[c].translation]

\* translateToTargetLanguages passing on the object of the translation
\* service as it is, keyed by language code
translateToTargetLanguagesUnmapped(byCode) == byCode

\* translateToTargetLanguages after translateTextMultiple returned: one
\* entry per name of config.supportedLanguages
translateToTargetLanguages(byCode) ==
  [name \in DOMAIN supportedLanguages |->
     JsOr(Lookup(byCode, supportedLanguages[name]), Lookup(byCode, name))]

\* no namedTranslations object has been built
NoTranslations == [name \in {} |-> ""]

\* new Date().toISOString(): the time the result was built
IsoTimestamp == "toISOString"

\* processTranslation that leaves the text out of its result
processTranslationWithoutText(transcribedText, named) ==
  [kind |-> "object", originalText |-> <<>>, hasTranslations |-> TRUE,
   translations |-> named, processedAt |-> IsoTimestamp]

\* TranslationProcessor.processTranslation: the result object built
\* around the text it was called with and the map of
\* translateToTargetLanguages (translationProcessor.js 125-132)
processTranslation(transcribedText, named) ==
  [kind |-> "object", originalText |-> transcribedText,
   hasTranslations |-> TRUE, translations |-> named,
   processedAt |-> IsoTimestamp]

\* ------------------------------------------------------------------------
\* State
\* ------------------------------------------------------------------------
VARIABLES
  run,                 \* number of runs of processVoiceNote started so far
  pc,                  \* where the current run is suspended
  outcome,             \* "none", "completed" (return result), "failed" (throw)
  audioBuffer,         \* length of the audioBuffer argument, or NoBuffer
  mimeType,            \* the mimeType argument
  heapUsed,            \* process.memoryUsage().heapUsed at admission, in MB
  memoryChecked,       \* whether the run called hasSufficientMemory
  tempFilePath,        \* saveAudioBuffer: filePath
  processedFilePath,   \* processVoiceNote: processedFilePath (NoPath: null)
  transcriptionResult, \* value transcribeAudioFile resolved with
  transcribedText,     \* processVoiceNote: transcribedText
  detectedLanguage,    \* processVoiceNote: detectedLanguage
  translationCall,     \* arguments processTranslation was called with
  result,              \* value processTranslation resolved with
  error,               \* message of the error thrown to the caller
  dir,                 \* files existing in config.audio.tempDir
  timers,              \* monitoringService.timers (ids of running timers)
  metrics,             \* monitoringService.metrics (entries per name)
  wrote,               \* history: files the current run created in dir
  log,                 \* history: stage calls and returns of the current run
  failedAt,            \* history: state the current run was in when it failed
  cleanups,            \* history: cleanupTempFile calls of the current run
  recognition,         \* transcribeAudioFile: result (value of transcribeAudio)
  calls,               \* translateTextMultiple: translationPromises, per code
  translations,        \* translateToTargetLanguages: namedTranslations
  outOfOrder,          \* history: a call settled before one issued earlier
  settledAfterFailure, \* history: a call resolved after another had failed
  resultsCreated,      \* history: result objects processTranslation built
  ucalls,              \* cleanupTempFile: each caller's call in progress
  raised,              \* a cleanupTempFile call threw to its caller
  attempted,           \* history: handles a cleanupTempFile call returned for
  cleaned,             \* history: handles a call returned for, file absent
  swallowed,           \* history: kinds of unlink errors the calls caught
  live,                \* concurrent runs: position and file name of each
  store,               \* concurrent runs: the run whose audio a file holds
  interference,        \* history: a run touched the file of another run
  formatArgs,          \* formatTranslatedResponse: its two arguments
  messageBody,         \* formatTranslatedResponse: the lines it returned
  request,             \* webhook: the HTTP request being handled
  wpc,                 \* webhook: position of the handler
  steps,               \* webhook: awaited calls that settled, in order
  responses,           \* webhook: HTTP responses sent for the request
  thrown,              \* webhook: error travelling up from the handler
  clock,               \* process.hrtime.bigint()
  startTimes,          \* monitoringService.timers: start time of each timer
  returned,            \* value the last endTimer call returned
  lastOp,              \* history: the last call made to monitoringService
  entries,             \* monitoringService.metrics: the entries held per name
  summary,             \* value the last getMetricSummary call returned
  recordings,          \* history: recordMetric calls made
  validationArgs,      \* Validation: the arguments of the call
  validationResult,    \* Validation: the value the call returned
  runTimes             \* overlapping runs: start, end and measured duration

\* the "<Date.now()>_<random>" part of the name saveAudioBuffer composes:
\* successive runs start at different times, so the run number stands for it
Ids == {run}

vars == <<run, pc, outcome, audioBuffer, mimeType, heapUsed, memoryChecked,
          tempFilePath,
          processedFilePath, transcriptionResult, transcribedText,
          detectedLanguage, translationCall, result, error, dir, timers,
          metrics, wrote, log, failedAt, cleanups, recognition, calls,
          translations, outOfOrder, settledAfterFailure, resultsCreated,
          ucalls, raised, attempted, cleaned, swallowed,
          live, store, interference, formatArgs, messageBody,
          request, wpc, steps, responses, thrown,
          clock, startTimes, returned, lastOp,
          entries, summary, recordings, validationArgs, validationResult,
          runTimes>>

\* the state of one run of processVoiceNote
pipelineVars ==
  <<run, pc, outcome, audioBuffer, mimeType, heapUsed, memoryChecked,
    tempFilePath, processedFilePath, transcriptionResult, transcribedText,
    detectedLanguage, translationCall, result, error, dir, timers, metrics,
    wrote, log, failedAt, cleanups>>

\* the state of the two adapters of the repository
adapterVars ==
  <<recognition, calls, translations, outOfOrder, settledAfterFailure,
    resultsCreated>>

\* the callers of cleanupTempFile outside one run of processVoiceNote
unstageVars == <<ucalls, raised, attempted, cleaned, swallowed>>

\* runs of processVoiceNote that execute at the same time
concVars == <<live, store, interference>>

\* a call of formatTranslatedResponse
formatVars == <<formatArgs, messageBody>>

\* the webhook routes
webhookVars == <<request, wpc, steps, responses, thrown>>

\* the timers of monitoringService called on their own
timerVars == <<clock, startTimes, returned, lastOp>>

\* the entries of monitoringService.metrics and their summaries
metricVars == <<entries, summary, recordings>>

\* a call of Validation.validateAudioSize or Validation.validateResponse
validationVars == <<validationArgs, validationResult>>

\* runs that overlap in time, as the monitoring singleton sees them
overlapVars == <<runTimes>>

laterVars == <<metricVars, validationVars, overlapVars>>

besideUnstage == <<concVars, formatVars, webhookVars, timerVars, laterVars>>
besideConc == <<unstageVars, formatVars, webhookVars, timerVars, laterVars>>
besideFormat == <<unstageVars, concVars, webhookVars, timerVars, laterVars>>
besideWebhook == <<unstageVars, concVars, formatVars, timerVars, laterVars>>
besideTimer == <<unstageVars, concVars, formatVars, webhookVars, laterVars>>
besideMetric ==
  <<unstageVars, concVars, formatVars, webhookVars, timerVars,
    validationVars, overlapVars>>
besideValidation ==
  <<unstageVars, concVars, formatVars, webhookVars, timerVars,
    metricVars, overlapVars>>

\* the state outside one run of processVoiceNote
outerVars ==
  <<unstageVars, concVars, formatVars, webhookVars, timerVars, laterVars>>

\* the callers of cleanupTempFile that may run at the same time
Callers == {"first", "second"}

\* a caller that has not called cleanupTempFile
NoUnstage == [pc |-> "idle", path |-> NoPath, sawFile |-> FALSE, n |-> 0]

\* the runs that execute at the same time
Runs == {"runA", "runB"}

\* Date.now() and Math.floor(Math.random() * 10000) as saveAudioBuffer
\* reads them: two runs may read the same millisecond, and the random
\* number is one of 10000 values (two stand for them)
Timestamps == {1, 2}
Randoms == {0, 1}

\* audio_<timestamp>_<random>.<extension> for one extension
Names == [ts : Timestamps, rnd : Randoms]
NoName == [ts |-> 0, rnd |-> 0]
NoOwner == "none"
NoRun == [pc |-> "idle", name |-> NoName]

\* originalText = null, the default of formatTranslatedResponse
NullText == [given |-> FALSE, text |-> <<>>]

\* formatTranslatedResponse not called
NoArgs == [translations |-> <<>>, originalText |-> NullText]

\* no request
NoRequest == [method |-> "none"]

\* endTimer not called, no call made
NoReturn == -1
NoOp == [op |-> "none", id |-> "none", n |-> 0]

\* names recordMetric is called with: one of a caller, and recordError's
RecordedNames == {"test_metric", "error_count"}

\* getMetricSummary not called
NoSummary == [name |-> "none", isNull |-> TRUE, count |-> 0]

\* Validation not called
NoValidationArgs == [fn |-> "none"]
NoValidation == [threw |-> FALSE, isValid |-> FALSE, error |-> NoError,
                 data |-> "none"]

\* a run that has not started
NoTimes == [pc |-> "idle", started |-> 0, ended |-> 0, measured |-> NoReturn,
            found |-> FALSE]

NoCall == [called |-> FALSE, text |-> <<>>, sourceLanguage |-> NoLanguage]

\* the state of section 4.3 the run is in
State ==
  CASE outcome = "failed" -> "Failed"
    [] outcome = "completed" -> "Completed"
    [] pc = "Idle" -> "Idle"
    [] pc \in {"Admitting", "Saving", "Converting"} -> "Admitting"
    [] pc = "Transcribing" -> "Staged"
    [] pc = "Translating" -> "Transcribed"
    [] pc = "Finalizing" -> "Translated"

PipelineInit ==
  /\ run = 0
  /\ pc = "Idle"
  /\ outcome = "none"
  /\ audioBuffer = NoBuffer
  /\ mimeType = "undefined"
  /\ heapUsed = 0
  /\ memoryChecked = FALSE
  /\ tempFilePath = NoPath
  /\ processedFilePath = NoPath
  /\ transcriptionResult = NoResponse
  /\ transcribedText = <<>>
  /\ detectedLanguage = NoLanguage
  /\ translationCall = NoCall
  /\ result = NoResult
  /\ error = NoError
  /\ dir = {}
  /\ timers = {}
  /\ metrics = [n \in MetricNames |-> 0]
  /\ wrote = {}
  /\ log = <<>>
  /\ failedAt = "none"
  /\ cleanups = 0
  /\ recognition = NoRecognition
  /\ calls = [c \in Codes |-> CallIdle]
  /\ translations = NoTranslations
  /\ outOfOrder = FALSE
  /\ settledAfterFailure = FALSE
  /\ resultsCreated = 0

\* no cleanupTempFile call is in progress outside the run
UnstageIdle ==
  /\ ucalls = [c \in Callers |-> NoUnstage]
  /\ raised = FALSE
  /\ attempted = {}
  /\ cleaned = {}
  /\ swallowed = {}

\* no concurrent run has started
ConcIdle ==
  /\ live = [r \in Runs |-> NoRun]
  /\ store = [n \in Names |-> NoOwner]
  /\ interference = {}

\* formatTranslatedResponse has not been called
FormatIdle ==
  /\ formatArgs = NoArgs
  /\ messageBody = <<>>

\* no request has arrived
WebhookIdle ==
  /\ request = NoRequest
  /\ wpc = "idle"
  /\ steps = <<>>
  /\ responses = <<>>
  /\ thrown = NoError

\* no timer call has been made
TimerIdle ==
  /\ clock = 1
  /\ startTimes = [id \in TimerIds |-> 0]
  /\ returned = NoReturn
  /\ lastOp = NoOp

\* nothing has been recorded
MetricIdle ==
  /\ entries = [name \in RecordedNames |-> <<>>]
  /\ summary = NoSummary
  /\ recordings = 0

\* Validation has not been called
ValidationIdle ==
  /\ validationArgs = NoValidationArgs
  /\ validationResult = NoValidation

\* no overlapping run has started
OverlapIdle == runTimes = [r \in Runs |-> NoTimes]

OuterIdle ==
  /\ UnstageIdle
  /\ ConcIdle
  /\ FormatIdle
  /\ WebhookIdle
  /\ TimerIdle
  /\ MetricIdle
  /\ ValidationIdle
  /\ OverlapIdle

Init ==
  /\ PipelineInit
  /\ OuterIdle

\* ------------------------------------------------------------------------
\* Leaving the try block (voiceProcessor.js 163-210)
\* ------------------------------------------------------------------------

\* LeaveTry whose catch throws a new error with a generic message in place
\* of the error it caught
LeaveTryGeneric(out, err, mon, pfp) ==
  LET caught == IF out = "failed" THEN recordError(mon) ELSE mon
      final == recordMemoryUsage(endTimer(caught, "voice_processing"))
  IN  /\ outcome' = out
      /\ error' = IF out = "failed" THEN ErrUnknown ELSE err
      /\ failedAt' = IF out = "failed" THEN State ELSE failedAt
      /\ timers' = final.timers
      /\ metrics' = final.metrics
      /\ pc' = IF pfp # NoPath THEN "Cleanup" ELSE "Done"

\* catch (only after a throw: recordError, handleError, rethrow), then the
\* synchronous part of finally: endTimer('voice_processing'),
\* recordMemoryUsage, and the test of processedFilePath.  mon is the
\* monitoring state and pfp the processedFilePath at the point of exit.
LeaveTry(out, err, mon, pfp) ==
  LET caught == IF out = "failed" THEN recordError(mon) ELSE mon
      final == recordMemoryUsage(endTimer(caught, "voice_processing"))
  IN  /\ outcome' = out
      /\ error' = err
      /\ failedAt' = IF out = "failed" THEN State ELSE failedAt
      /\ timers' = final.timers
      /\ metrics' = final.metrics
      /\ pc' = IF pfp # NoPath THEN "Cleanup" ELSE "Done"

\* ------------------------------------------------------------------------
\* Actions
\* ------------------------------------------------------------------------

\* processVoiceNote is called (73-78): startTimer, recordMetric
StartRun ==
  /\ pc \in {"Idle", "Done"}
  /\ run < MaxRuns
  /\ run' = run + 1
  /\ pc' = "Admitting"
  /\ outcome' = "none"
  /\ audioBuffer' = NoBuffer
  /\ mimeType' = "undefined"
  /\ heapUsed' = 0
  /\ memoryChecked' = FALSE
  /\ tempFilePath' = NoPath
  /\ processedFilePath' = NoPath
  /\ transcriptionResult' = NoResponse
  /\ transcribedText' = <<>>
  /\ detectedLanguage' = NoLanguage
  /\ translationCall' = NoCall
  /\ result' = NoResult
  /\ error' = NoError
  /\ LET mon == recordMetric(startTimer(Monitor(timers, metrics),
                                        "voice_processing"),
                             "voice_processing_attempts")
     IN  timers' = mon.timers /\ metrics' = mon.metrics
  /\ wrote' = {}
  /\ log' = <<>>
  /\ failedAt' = "none"
  /\ cleanups' = 0
  /\ recognition' = NoRecognition
  /\ calls' = [c \in Codes |-> CallIdle]
  /\ translations' = NoTranslations
  /\ outOfOrder' = FALSE
  /\ settledAfterFailure' = FALSE
  /\ resultsCreated' = 0
  /\ UNCHANGED <<dir, outerVars>>

\* admission (86-99) and, when admitted, the start of staging:
\* processAudioBuffer picks the extension, saveAudioBuffer composes the
\* file name and calls fs.promises.writeFile (mediaHandler.js 159-183, 41-48)
Admit(buf, mime, used, id) ==
  /\ pc = "Admitting"
  /\ audioBuffer' = buf
  /\ mimeType' = mime
  /\ heapUsed' = used
  /\ memoryChecked' = NeedsMemoryCheck(buf)
  /\ LET mon0 == Monitor(timers, metrics)
         mon1 == IF NeedsMemoryCheck(buf)
                 THEN endTimer(startTimer(mon0, "memory_check"), "memory_check")
                 ELSE mon0
     IN  IF NeedsMemoryCheck(buf) /\ ~hasSufficientMemory(used, HeapTotal)
         THEN /\ LeaveTry("failed", ErrInsufficientMemory, mon1, NoPath)
              /\ UNCHANGED <<tempFilePath, log>>
         ELSE IF ExceedsLimit(buf)
         THEN /\ LeaveTry("failed", ErrTooLarge, mon1, NoPath)
              /\ UNCHANGED <<tempFilePath, log>>
         ELSE /\ tempFilePath' = Path(id, ExtensionFor(mime), FALSE)
              /\ log' = Append(log, "stage_call")
              /\ pc' = "Saving"
              /\ timers' = mon1.timers
              /\ metrics' = mon1.metrics
              /\ UNCHANGED <<outcome, error, failedAt>>
  /\ UNCHANGED <<run, processedFilePath, transcriptionResult, transcribedText,
                 detectedLanguage, translationCall, result, dir, wrote,
                 cleanups>>
  /\ UNCHANGED <<adapterVars, outerVars>>

\* CallStt with the await of processAudioBuffer missing: transcription is
\* called before the staging step has returned
CallSttUnawaited(path) ==
  /\ processedFilePath' = path
  /\ log' = log \o <<"stt_call", "stage_return">>
  /\ timers' = timers \cup {"stt_processing"}
  /\ pc' = "Transcribing"
  /\ UNCHANGED <<metrics, outcome, error, failedAt>>

\* the call of transcribeAudioFile that follows staging (104-109)
CallStt(path) ==
  /\ processedFilePath' = path
  /\ log' = log \o <<"stage_return", "stt_call">>
  /\ timers' = timers \cup {"stt_processing"}
  /\ pc' = "Transcribing"
  /\ UNCHANGED <<metrics, outcome, error, failedAt>>

\* writeFile resolves; convertAudioFormat returns a compatible file as it
\* is and otherwise spawns ffmpeg (mediaHandler.js 48-52, 68-91, 183-186)
SaveDone ==
  /\ pc = "Saving"
  /\ dir' = dir \cup {tempFilePath}
  /\ wrote' = wrote \cup {tempFilePath}
  /\ IF IsCompatible(tempFilePath)
     THEN CallStt(tempFilePath)
     ELSE /\ pc' = "Converting"
          /\ UNCHANGED <<processedFilePath, log, timers, metrics, outcome,
                         error, failedAt>>
  /\ UNCHANGED <<run, audioBuffer, mimeType, heapUsed, memoryChecked,
                 tempFilePath,
                 transcriptionResult, transcribedText, detectedLanguage,
                 translationCall, result, cleanups>>
  /\ UNCHANGED <<adapterVars, outerVars>>

\* writeFile rejects (mediaHandler.js 53-60, 195-203); the file may have
\* been created before the failure
SaveFails(partial) ==
  /\ pc = "Saving"
  /\ dir' = IF partial THEN dir \cup {tempFilePath} ELSE dir
  /\ wrote' = IF partial THEN wrote \cup {tempFilePath} ELSE wrote
  /\ LeaveTry("failed", ErrWriteFile, Monitor(timers, metrics), NoPath)
  /\ UNCHANGED <<run, audioBuffer, mimeType, heapUsed, memoryChecked,
                 tempFilePath,
                 processedFilePath, transcriptionResult, transcribedText,
                 detectedLanguage, translationCall, result, log, cleanups>>
  /\ UNCHANGED <<adapterVars, outerVars>>

\* ffmpeg exits with code 0 (mediaHandler.js 98-104, 186-194)
ConvertDone ==
  /\ pc = "Converting"
  /\ dir' = dir \cup {ConvertedPath(tempFilePath)}
  /\ wrote' = wrote \cup {ConvertedPath(tempFilePath)}
  /\ CallStt(ConvertedPath(tempFilePath))
  /\ UNCHANGED <<run, audioBuffer, mimeType, heapUsed, memoryChecked,
                 tempFilePath,
                 transcriptionResult, transcribedText, detectedLanguage,
                 translationCall, result, cleanups>>
  /\ UNCHANGED <<adapterVars, outerVars>>

\* ffmpeg fails (mediaHandler.js 105-121, 195-203); it may have created
\* its output file before failing
ConvertFails(partial) ==
  /\ pc = "Converting"
  /\ dir' = IF partial THEN dir \cup {ConvertedPath(tempFilePath)} ELSE dir
  /\ wrote' = IF partial THEN wrote \cup {ConvertedPath(tempFilePath)} ELSE wrote
  /\ LeaveTry("failed", ErrFfmpeg, Monitor(timers, metrics), NoPath)
  /\ UNCHANGED <<run, audioBuffer, mimeType, heapUsed, memoryChecked,
                 tempFilePath,
                 processedFilePath, transcriptionResult, transcribedText,
                 detectedLanguage, translationCall, result, log, cleanups>>
  /\ UNCHANGED <<adapterVars, outerVars>>

\* Normalise handling only the object format: a bare string is rejected
NormaliseObjectOnly(r) ==
  CASE r.shape = "object" /\ Truthy(r.text) ->
         [err |-> NoError, text |-> r.text, language |-> r.language]
    [] r.shape = "null" ->
         [err |-> ErrTypeError, text |-> <<>>, language |-> NoLanguage]
    [] OTHER ->
         [err |-> ErrUnexpectedFormat, text |-> <<>>, language |-> NoLanguage]

\* the shape handling of the transcription result (112-124)
Normalise(r) ==
  CASE r.shape = "string" ->
         [err |-> NoError, text |-> r.text, language |-> NoLanguage]
    [] r.shape = "object" /\ Truthy(r.text) ->
         [err |-> NoError, text |-> r.text, language |-> r.language]
    [] r.shape = "null" ->
         [err |-> ErrTypeError, text |-> <<>>, language |-> NoLanguage]
    [] OTHER ->
         [err |-> ErrUnexpectedFormat, text |-> <<>>, language |-> NoLanguage]

\* the test of line 131
NoTextDetected(text) == ~Truthy(text) \/ Len(trim(text)) = 0

\* the run continues after the await of line 109 with the value r:
\* endTimer, shape handling, the empty-text test and the call of
\* processTranslation (110-139)
TranscriptionReturned(r) ==
  /\ pc = "Transcribing"
  /\ transcriptionResult' = r
  /\ LET n == Normalise(r)
         mon == endTimer(Monitor(timers, metrics), "stt_processing")
     IN  /\ transcribedText' = n.text
         /\ detectedLanguage' = n.language
         /\ IF n.err # NoError
            THEN /\ LeaveTry("failed", n.err, mon, processedFilePath)
                 /\ log' = Append(log, "stt_return")
                 /\ UNCHANGED translationCall
            ELSE IF NoTextDetected(n.text)
            THEN /\ LeaveTry("failed", ErrNoText, mon, processedFilePath)
                 /\ log' = Append(log, "stt_return")
                 /\ UNCHANGED translationCall
            ELSE /\ translationCall' =
                      [called |-> TRUE, text |-> n.text,
                       sourceLanguage |-> n.language]
                 /\ log' = log \o <<"stt_return", "translate_call">>
                 /\ timers' = mon.timers \cup {"translation_processing"}
                 /\ metrics' = mon.metrics
                 /\ pc' = "Translating"
                 /\ UNCHANGED <<outcome, error, failedAt>>
  /\ UNCHANGED <<run, audioBuffer, mimeType, heapUsed, memoryChecked,
                 tempFilePath,
                 processedFilePath, result, dir, wrote, cleanups>>

\* transcribeAudioFile resolves with r
SttResolves(r) ==
  /\ TranscriptionReturned(r)
  /\ UNCHANGED <<adapterVars, outerVars>>

\* the await of line 109 throws an error with this message: control goes
\* to catch, the endTimer of line 110 is skipped
TranscriptionThrew(message) ==
  /\ pc = "Transcribing"
  /\ LeaveTry("failed", message, Monitor(timers, metrics), processedFilePath)
  /\ log' = Append(log, "stt_return")
  /\ UNCHANGED <<run, audioBuffer, mimeType, heapUsed, memoryChecked,
                 tempFilePath,
                 processedFilePath, transcriptionResult, transcribedText,
                 detectedLanguage, translationCall, result, dir, wrote,
                 cleanups>>

\* transcribeAudioFile rejects
SttRejects ==
  /\ TranscriptionThrew(ErrStt)
  /\ UNCHANGED <<adapterVars, outerVars>>

\* the value processTranslation resolves with: the object built at
\* translationProcessor.js 128-132 around the text it was called with, or
\* a value of another kind
TranslationValue(kind, text) ==
  [kind |-> kind,
   originalText |-> IF kind = "object" THEN text ELSE <<>>,
   hasTranslations |-> kind # "null"]

\* the run continues after the await of line 139 with the value
\* processTranslation resolved with (139-140)
TranslationReturned(value) ==
  /\ pc = "Translating"
  /\ result' = value
  /\ LET mon == endTimer(Monitor(timers, metrics), "translation_processing")
     IN  timers' = mon.timers /\ metrics' = mon.metrics
  /\ log' = Append(log, "translate_return")
  /\ pc' = "Finalizing"
  /\ UNCHANGED <<run, outcome, audioBuffer, mimeType, heapUsed, memoryChecked,
                 tempFilePath,
                 processedFilePath, transcriptionResult, transcribedText,
                 detectedLanguage, translationCall, error, dir, wrote,
                 failedAt, cleanups>>

\* processTranslation resolves
TranslationResolves(kind) ==
  /\ TranslationReturned(TranslationValue(kind, translationCall.text))
  /\ UNCHANGED <<adapterVars, outerVars>>

\* processTranslation rejects: the endTimer of line 140 is skipped
TranslationRejects ==
  /\ pc = "Translating"
  /\ LeaveTry("failed", ErrTranslation, Monitor(timers, metrics),
              processedFilePath)
  /\ log' = Append(log, "translate_return")
  /\ UNCHANGED <<run, audioBuffer, mimeType, heapUsed, memoryChecked,
                 tempFilePath,
                 processedFilePath, transcriptionResult, transcribedText,
                 detectedLanguage, translationCall, result, dir, wrote,
                 cleanups>>
  /\ UNCHANGED <<adapterVars, outerVars>>

\* Finalize returning whatever processTranslation resolved with, without
\* reading or validating it
FinalizeUnchecked ==
  /\ pc = "Finalizing"
  /\ LeaveTry("completed", NoError, Monitor(timers, metrics), processedFilePath)
  /\ UNCHANGED <<run, audioBuffer, mimeType, heapUsed, memoryChecked,
                 tempFilePath, processedFilePath, transcriptionResult,
                 transcribedText, detectedLanguage, translationCall, result,
                 dir, wrote, log, cleanups>>
  /\ UNCHANGED <<adapterVars, outerVars>>

\* the rest of the try block (141-162): Object.keys(result.translations)
\* throws a TypeError on a value without translations, then the result is
\* validated and returned
Finalize ==
  /\ pc = "Finalizing"
  /\ LET err == IF ~result.hasTranslations THEN ErrTypeError
                ELSE IF ~validateResponse(result) THEN ErrValidation
                ELSE NoError
     IN  LeaveTry(IF err = NoError THEN "completed" ELSE "failed", err,
                  Monitor(timers, metrics), processedFilePath)
  /\ UNCHANGED <<run, audioBuffer, mimeType, heapUsed, memoryChecked,
                 tempFilePath,
                 processedFilePath, transcriptionResult, transcribedText,
                 detectedLanguage, translationCall, result, dir, wrote, log,
                 cleanups>>
  /\ UNCHANGED <<adapterVars, outerVars>>

\* MediaHandler.cleanupTempFile(filePath) (mediaHandler.js 138-151): an
\* existing file is unlinked; a failing unlink is logged and swallowed and
\* leaves the file where it is
cleanupTempFile(files, filePath, unlinkOk) ==
  IF filePath \in files /\ unlinkOk THEN files \ {filePath} ELSE files

\* Cleanup without the catch of lines 196-203 and with a cleanupTempFile
\* that lets the unlink error through: the error replaces the outcome
CleanupEscalates(unlinkOk) ==
  /\ pc = "Cleanup"
  /\ dir' = cleanupTempFile(dir, processedFilePath, unlinkOk)
  /\ cleanups' = cleanups + 1
  /\ pc' = "Done"
  /\ outcome' = IF unlinkOk THEN outcome ELSE "failed"
  /\ error' = IF unlinkOk THEN error ELSE ErrUnlink
  /\ UNCHANGED <<run, audioBuffer, mimeType, heapUsed, memoryChecked,
                 tempFilePath,
                 processedFilePath, transcriptionResult, transcribedText,
                 detectedLanguage, translationCall, result, timers,
                 metrics, wrote, log, failedAt>>
  /\ UNCHANGED <<adapterVars, outerVars>>

\* the cleanup of the finally block (190-203); then the promise of
\* processVoiceNote settles
Cleanup(unlinkOk) ==
  /\ pc = "Cleanup"
  /\ dir' = cleanupTempFile(dir, processedFilePath, unlinkOk)
  /\ cleanups' = cleanups + 1
  /\ pc' = "Done"
  /\ UNCHANGED <<run, outcome, audioBuffer, mimeType, heapUsed, memoryChecked,
                 tempFilePath,
                 processedFilePath, transcriptionResult, transcribedText,
                 detectedLanguage, translationCall, result, error, timers,
                 metrics, wrote, log, failedAt>>
  /\ UNCHANGED <<adapterVars, outerVars>>

Next ==
  \/ StartRun
  \/ \E buf \in Buffers, mime \in MimeTypes, used \in HeapUsedSamples,
        id \in Ids : Admit(buf, mime, used, id)
  \/ SaveDone
  \/ \E partial \in BOOLEAN : SaveFails(partial)
  \/ ConvertDone
  \/ \E partial \in BOOLEAN : ConvertFails(partial)
  \/ \E r \in SttResponses : SttResolves(r)
  \/ SttRejects
  \/ \E kind \in ResultKinds : TranslationResolves(kind)
  \/ TranslationRejects
  \/ Finalize
  \/ \E unlinkOk \in BOOLEAN : Cleanup(unlinkOk)

Spec == Init /\ [][Next]_vars

\* every external call eventually resolves or rejects
FairSpec == Spec /\ WF_vars(Next)

\* ------------------------------------------------------------------------
\* The run with the adapters of the repository
\* ------------------------------------------------------------------------

\* inputs of the admission step under AdapterSpec: a payload that needs no
\* memory check, of a type that is converted and of a type that is not
AdapterMimeTypes == {"audio/ogg", "audio/wav"}

\* client.recognize resolves: transcribeAudio and transcribeAudioFile
\* return (whatsapp.js 407-432, 492-522) and the run continues.  When it
\* reaches line 139, processTranslation, translateToTargetLanguages and
\* translateTextMultiple run up to their first await, so every
\* translateText call is issued in this step (part_006 173-185).
RecognizeResolves(results) ==
  /\ pc = "Transcribing"
  /\ recognition = NoRecognition
  /\ LET r == transcribeAudio(results)
         out == transcribeAudioFile(r)
     IN  /\ recognition' = r
         /\ IF out.threw
            THEN /\ TranscriptionThrew(out.message)
                 /\ UNCHANGED calls
            ELSE /\ TranscriptionReturned(
                      [shape |-> "string", text |-> out.value,
                       language |-> NoLanguage])
                 /\ calls' = IF pc' = "Translating"
                             THEN [c \in Codes |-> CallPending]
                             ELSE calls
  /\ UNCHANGED <<translations, outOfOrder, settledAfterFailure,
                 resultsCreated>>
  /\ UNCHANGED outerVars

\* client.recognize rejects: transcribeAudio and transcribeAudioFile each
\* catch the error and throw a new one with the handled message
\* (whatsapp.js 433-451, 523-542)
RecognizeRejects ==
  /\ pc = "Transcribing"
  /\ recognition = NoRecognition
  /\ TranscriptionThrew(handleError(handleError(ErrRecognize)))
  /\ UNCHANGED <<adapterVars, outerVars>>

\* the translate.translate call for lang settles: translateText returns
\* the translation or throws, and the .then or .catch of
\* translateTextMultiple turns either into a {lang, translation} value
\* (part_006 88-144, 173-182)
TranslateSettles(lang, o) ==
  /\ pc = "Translating"
  /\ calls[lang] = CallPending
  /\ calls' = [calls EXCEPT ![lang] = CallSettled(lang, o)]
  /\ outOfOrder' =
       (outOfOrder \/ \E c \in Codes :
                        Position(c) < Position(lang) /\ calls[c] = CallPending)
  /\ settledAfterFailure' =
       (settledAfterFailure
          \/ (o.ok /\ \E c \in Codes : calls[c].status = "rejected"))
  /\ UNCHANGED <<run, pc, outcome, audioBuffer, mimeType, heapUsed,
                 memoryChecked, tempFilePath, processedFilePath,
                 transcriptionResult, transcribedText, detectedLanguage,
                 translationCall, result, error, dir, timers, metrics, wrote,
                 log, failedAt, cleanups, recognition, translations,
                 resultsCreated>>
  /\ UNCHANGED outerVars

\* PromiseAllResolves that does not wait for every call: it resolves as
\* soon as one call has settled
PromiseAllResolvesEarly ==
  /\ \E c \in Codes : IsSettled(calls[c])
  /\ LET named == translateToTargetLanguages(translateTextMultiple(calls))
     IN  /\ translations' = named
         /\ TranslationReturned(processTranslation(translationCall.text,
                                                    named))
  /\ resultsCreated' = resultsCreated + 1
  /\ UNCHANGED <<recognition, calls, outOfOrder, settledAfterFailure>>
  /\ UNCHANGED outerVars

\* Promise.all resolves once every call has settled: translateTextMultiple
\* builds its object, translateToTargetLanguages maps it to the language
\* names, processTranslation wraps it into the result, and the run
\* continues after line 139 (part_006 185-215, translationProcessor.js
\* 64-88, 125-150)
PromiseAllResolves ==
  /\ \A c \in Codes : IsSettled(calls[c])
  /\ LET named == translateToTargetLanguages(translateTextMultiple(calls))
     IN  /\ translations' = named
         /\ TranslationReturned(processTranslation(translationCall.text,
                                                    named))
  /\ resultsCreated' = resultsCreated + 1
  /\ UNCHANGED <<recognition, calls, outOfOrder, settledAfterFailure>>
  /\ UNCHANGED outerVars

\* staging failures are explored by Spec; here every run is staged
AdapterNext ==
  \/ StartRun
  \/ \E mime \in AdapterMimeTypes, id \in Ids :
       Admit(maxFileSize \div 2, mime, HeapTotal, id)
  \/ SaveDone
  \/ ConvertDone
  \/ \E results \in RecognizeResponses : RecognizeResolves(results)
  \/ RecognizeRejects
  \/ \E lang \in Codes, o \in TranslateOutcomes : TranslateSettles(lang, o)
  \/ PromiseAllResolves
  \/ Finalize
  \/ \E unlinkOk \in BOOLEAN : Cleanup(unlinkOk)

AdapterSpec == Init /\ [][AdapterNext]_vars

\* every call of a Google client eventually resolves or rejects
FairAdapterSpec == AdapterSpec /\ WF_vars(AdapterNext)

\* ------------------------------------------------------------------------
\* cleanupTempFile called by several callers (mediaHandler.js 138-151)
\* ------------------------------------------------------------------------

\* the handles the callers pass: the staged file and its converted copy
Handles == {Path(1, "wav", FALSE), Path(1, "wav", TRUE)}

\* a staging step of some run has written the file of a handle; the
\* cleanup calls explored here start once the files are in place
StageFile(p) ==
  /\ p \notin dir
  /\ \A c \in Callers : ucalls[c] = NoUnstage
  /\ dir' = dir \cup {p}
  /\ UNCHANGED <<run, pc, outcome, audioBuffer, mimeType, heapUsed,
                 memoryChecked, tempFilePath, processedFilePath,
                 transcriptionResult, transcribedText, detectedLanguage,
                 translationCall, result, error, timers, metrics, wrote,
                 log, failedAt, cleanups>>
  /\ UNCHANGED <<adapterVars, unstageVars, besideUnstage>>

\* the call has returned to its caller: the history of the handle
Returned(c, p, sawFile, files) ==
  /\ ucalls' = [ucalls EXCEPT ![c] = [pc |-> "idle", path |-> p,
                                      sawFile |-> sawFile, n |-> @.n + 1]]
  /\ attempted' = attempted \cup {p}
  /\ cleaned' = IF p \in files THEN cleaned ELSE cleaned \cup {p}

\* cleanupTempFile(filePath) up to its await: fs.existsSync, and either
\* the function returns or fs.promises.unlink is issued (lines 139-142)
UnstageCall(c, p) ==
  /\ ucalls[c].pc = "idle"
  /\ ucalls[c].n < MaxCalls
  /\ IF p \in dir
     THEN /\ ucalls' = [ucalls EXCEPT ![c] = [pc |-> "unlinking", path |-> p,
                                              sawFile |-> TRUE, n |-> @.n]]
          /\ UNCHANGED <<attempted, cleaned>>
     ELSE Returned(c, p, FALSE, dir)
  /\ UNCHANGED <<run, pc, outcome, audioBuffer, mimeType, heapUsed,
                 memoryChecked, tempFilePath, processedFilePath,
                 transcriptionResult, transcribedText, detectedLanguage,
                 translationCall, result, error, dir, timers, metrics, wrote,
                 log, failedAt, cleanups>>
  /\ UNCHANGED <<adapterVars, raised, swallowed, besideUnstage>>

\* the kind of error unlink rejects with, "none" when it removes the file
UnlinkError(files, filePath, unlinkOk) ==
  IF filePath \notin files THEN "ENOENT"
  ELSE IF unlinkOk THEN "none" ELSE "EPERM"

\* UnlinkSettles without the catch block: the rejection of unlink leaves
\* cleanupTempFile
UnlinkSettlesUncaught(c, unlinkOk) ==
  /\ ucalls[c].pc = "unlinking"
  /\ LET p == ucalls[c].path
         e == UnlinkError(dir, p, unlinkOk)
     IN  /\ dir' = cleanupTempFile(dir, p, unlinkOk)
         /\ swallowed' = swallowed
         /\ raised' = (raised \/ e # "none")
         /\ Returned(c, p, TRUE, dir')
  /\ UNCHANGED <<run, pc, outcome, audioBuffer, mimeType, heapUsed,
                 memoryChecked, tempFilePath, processedFilePath,
                 transcriptionResult, transcribedText, detectedLanguage,
                 translationCall, result, error, timers, metrics, wrote,
                 log, failedAt, cleanups>>
  /\ UNCHANGED <<adapterVars, besideUnstage>>

\* fs.promises.unlink settles: it removes the file, or it rejects (the
\* file is gone since existsSync, or the removal fails) and the catch
\* block logs the error without throwing (lines 142-150)
UnlinkSettles(c, unlinkOk) ==
  /\ ucalls[c].pc = "unlinking"
  /\ LET p == ucalls[c].path
         e == UnlinkError(dir, p, unlinkOk)
     IN  /\ dir' = cleanupTempFile(dir, p, unlinkOk)
         /\ swallowed' = IF e = "none" THEN swallowed ELSE swallowed \cup {e}
         /\ raised' = raised
         /\ Returned(c, p, TRUE, dir')
  /\ UNCHANGED <<run, pc, outcome, audioBuffer, mimeType, heapUsed,
                 memoryChecked, tempFilePath, processedFilePath,
                 transcriptionResult, transcribedText, detectedLanguage,
                 translationCall, result, error, timers, metrics, wrote,
                 log, failedAt, cleanups>>
  /\ UNCHANGED <<adapterVars, besideUnstage>>

UnstageNext ==
  \/ \E p \in Handles : StageFile(p)
  \/ \E c \in Callers, p \in Handles : UnstageCall(c, p)
  \/ \E c \in Callers, unlinkOk \in BOOLEAN : UnlinkSettles(c, unlinkOk)

UnstageSpec == Init /\ [][UnstageNext]_vars


\* ------------------------------------------------------------------------
\* Runs of processVoiceNote that execute at the same time: the file
\* operations of each run on the staging directory (mediaHandler.js 41-61,
\* voiceProcessor.js 101-109, 190-195)
\* ------------------------------------------------------------------------

\* the steps of the other runs do not change this state
ConcFrame == UNCHANGED <<pipelineVars, adapterVars, besideConc>>

\* a run touches a file that holds, or is being written with, the audio of
\* another run
Touches(r, n, kind) ==
  IF \/ store[n] \notin {NoOwner, r}
     \/ \E o \in Runs \ {r} : live[o].name = n /\ live[o].pc # "done"
  THEN interference \cup {kind}
  ELSE interference

\* saveAudioBuffer up to its await: the file name is composed from
\* Date.now() and Math.random(), writeFile is issued (lines 44-48)
SaveCall(r, ts, rnd) ==
  /\ live[r].pc = "idle"
  /\ live' = [live EXCEPT ![r] = [pc |-> "writing",
                                  name |-> [ts |-> ts, rnd |-> rnd]]]
  /\ UNCHANGED <<store, interference>>
  /\ ConcFrame

\* writeFile resolves: the file now holds the audio of run r, whatever it
\* held before (line 48)
WriteResolves(r) ==
  /\ live[r].pc = "writing"
  /\ interference' = Touches(r, live[r].name, "overwrite")
  /\ store' = [store EXCEPT ![live[r].name] = r]
  /\ live' = [live EXCEPT ![r].pc = "staged"]
  /\ ConcFrame

\* the transcription adapter reads the file at the run's path
\* (voiceProcessor.js 108, whatsapp.js 488-490)
ReadFile(r) ==
  /\ live[r].pc = "staged"
  /\ interference' =
       IF store[live[r].name] # r
       THEN interference \cup {"read"}
       ELSE interference
  /\ live' = [live EXCEPT ![r].pc = "transcribed"]
  /\ UNCHANGED store
  /\ ConcFrame

\* the finally block removes the file at the run's path
\* (voiceProcessor.js 190-195, mediaHandler.js 138-143)
RemoveFile(r) ==
  /\ live[r].pc = "transcribed"
  /\ interference' =
       IF store[live[r].name] # NoOwner
       THEN Touches(r, live[r].name, "delete")
       ELSE interference
  /\ store' = [store EXCEPT ![live[r].name] = NoOwner]
  /\ live' = [live EXCEPT ![r].pc = "done"]
  /\ ConcFrame

ConcNext ==
  \/ \E r \in Runs, ts \in Timestamps, rnd \in Randoms : SaveCall(r, ts, rnd)
  \/ \E r \in Runs : WriteResolves(r)
  \/ \E r \in Runs : ReadFile(r)
  \/ \E r \in Runs : RemoveFile(r)

ConcSpec == Init /\ [][ConcNext]_vars

\* ------------------------------------------------------------------------
\* ResponseFormatter.formatTranslatedResponse (responseFormatter.js 29-61)
\* ------------------------------------------------------------------------

\* property names of the translations object, as characters
Labels == {<<>>, <<"e">>, <<"e", "s">>, <<"s", "e">>}

\* translations[lang]: an empty and a non-empty text
FormatValues == {<<>>, <<"a">>}

\* a translations object in the order Object.keys lists its properties
TranslationMaps ==
  {m \in UNION {[1..n -> [lang : Labels, translation : FormatValues]] :
                  n \in 0..MaxEntries} :
     \A i, j \in DOMAIN m : i # j => m[i].lang # m[j].lang}

\* the second argument: left out (null) or a text, the empty one included
OriginalTexts == {NullText} \cup [given : {TRUE}, text : Texts]

\* String.prototype.toUpperCase on one character
Upper(c) ==
  CASE c = "e" -> "E"
    [] c = "s" -> "S"
    [] OTHER -> c

\* langName that leaves the label as it is
langNameAsIs(lang) == lang

\* lang.charAt(0).toUpperCase() + lang.slice(1) (line 41)
langName(lang) ==
  IF lang = <<>> THEN <<>> ELSE <<Upper(Head(lang))>> \o Tail(lang)

\* formatTranslatedResponse(translations, originalText) (lines 32-54):
\* messageBody as the sequence of the lines it is concatenated from
formatTranslatedResponse(map, originalText) ==
  LET Line(kind, label, text) ==
        [kind |-> kind, label |-> label, text |-> text]
  IN  <<Line("header", <<>>, <<>>)>>
        \o (IF originalText.given /\ Truthy(originalText.text)
            THEN <<Line("original", <<>>, originalText.text)>>
            ELSE <<>>)
        \o [i \in DOMAIN map |->
              Line("entry", langName(map[i].lang), map[i].translation)]
        \o <<Line("footer", <<>>, <<>>)>>

\* the formatter is called with its arguments and returns
FormatCall ==
  /\ messageBody = <<>>
  /\ messageBody' = formatTranslatedResponse(formatArgs.translations,
                                             formatArgs.originalText)
  /\ UNCHANGED <<formatArgs, pipelineVars, adapterVars, besideFormat>>

FormatInit ==
  /\ PipelineInit
  /\ UnstageIdle
  /\ ConcIdle
  /\ WebhookIdle
  /\ TimerIdle
  /\ MetricIdle
  /\ ValidationIdle
  /\ OverlapIdle
  /\ formatArgs \in [translations : TranslationMaps,
                     originalText : OriginalTexts]
  /\ messageBody = <<>>

FormatNext == FormatCall

FormatSpec == FormatInit /\ [][FormatNext]_vars

\* ------------------------------------------------------------------------
\* The webhook routes (routes/webhook.js 32-222) behind asyncWrapper and the
\* error middleware (errorHandler.js 42-72)
\* ------------------------------------------------------------------------

\* config.whatsapp.verifyToken
VerifyToken == "verify-token"

\* values of the query parameters hub.mode and hub.verify_token: left
\* out, empty, and two strings each
Modes == {Undefined, "", "subscribe", "unsubscribe"}
Tokens == {Undefined, "", VerifyToken, "other-token"}
Challenges == {"challenge-1", "challenge-2"}

\* truthiness of a query parameter
Present(v) == v \notin {Undefined, ""}

\* the responses the routes and the error middleware send
Response(status, body) == [status |-> status, body |-> body]
Ok200 == Response(200, "OK")
Forbidden403 == Response(403, "Forbidden")
BadRequest400 == Response(400, "Missing mode or token in query string")
Error500 == Response(500, "Internal server error")

\* the GET handler answering 200 on a matching token whatever the mode
verifyWebhookTokenOnly(mode, token, challenge) ==
  IF Present(mode) /\ Present(token)
  THEN IF token = VerifyToken
       THEN Response(200, challenge)
       ELSE Forbidden403
  ELSE BadRequest400

\* the GET handler (lines 41-59)
verifyWebhook(mode, token, challenge) ==
  IF Present(mode) /\ Present(token)
  THEN IF mode = "subscribe" /\ token = VerifyToken
       THEN Response(200, challenge)
       ELSE Forbidden403
  ELSE BadRequest400

\* bodies of a POST by how far the test of lines 67-73 gets: the shapes
\* for which it is false, those on which it throws a TypeError, and a
\* body with a message
FalseShapes == {"no object", "no entry", "no changes", "changes: []",
                "no messages"}
ThrowingShapes == {"entry: []", "no value", "messages: []"}
NoMessageShapes == FalseShapes \cup ThrowingShapes

\* message.audio.mime_type
WebhookMimes == {Undefined, "audio/ogg", "audio/wav", "audio/mpeg"}

Bodies ==
  [shape : NoMessageShapes, type : {"none"}, mime : {Undefined}]
    \cup [shape : {"message"}, type : {"audio"}, mime : WebhookMimes]
    \cup [shape : {"message"}, type : {"text", "image"}, mime : {Undefined}]

\* the texts the webhook sends with sendMessage
AckText == "Received your voice note! Processing and translating now..."
ApologyText ==
  "Sorry, there was an error processing your voice note. Please try again."
ThanksText ==
  "Thanks for your message! For voice translations, please send a voice note."

\* an awaited call that has settled
Step(call, arg, ok) == [call |-> call, arg |-> arg, ok |-> ok]

\* the error a rejected call throws
ErrorOf(call) ==
  CASE call = "sendMessage" -> "sendMessage rejected"
    [] call = "getMediaUrl" -> "getMediaUrl rejected"
    [] call = "downloadMedia" -> "downloadMedia rejected"
    [] call = "processVoiceNote" -> "processVoiceNote rejected"
    [] call = "sendTranslatedResponse" -> "sendTranslatedResponse rejected"
ErrApology == "sendMessage rejected (apology)"
ErrBody == "TypeError: Cannot read properties of undefined"

\* mimeType = 'audio/ogg' when the argument is undefined (line 160)
DefaultMime(mime) == IF mime = Undefined THEN "audio/ogg" ELSE mime

\* the webhook actions do not change this state
WebhookFrame == UNCHANGED <<pipelineVars, adapterVars, besideWebhook>>

\* GET /webhook (lines 32-60)
Get(mode, token, challenge) ==
  /\ wpc = "idle"
  /\ request' = [method |-> "GET", mode |-> mode, token |-> token,
                 challenge |-> challenge]
  /\ responses' = Append(responses, verifyWebhook(mode, token, challenge))
  /\ wpc' = "done"
  /\ UNCHANGED <<steps, thrown>>
  /\ WebhookFrame

\* the handler has thrown: handleWhatsAppMessage rethrows, asyncWrapper
\* passes the error to next, the error middleware answers 500
\* (webhook.js 145-156, errorHandler.js 47-72)
Throws(err) ==
  /\ thrown' = err
  /\ responses' = Append(responses, Error500)
  /\ wpc' = "done"

\* the handler has returned: res.sendStatus(200) (lines 88, 91, 95)
Returns ==
  /\ responses' = Append(responses, Ok200)
  /\ wpc' = "done"
  /\ UNCHANGED thrown

\* POST /webhook up to its first awaited call (lines 63-97, 100-135,
\* 160-169)
Post(body) ==
  /\ wpc = "idle"
  /\ request' = [method |-> "POST", body |-> body]
  /\ IF body.shape \in FalseShapes THEN Returns
     ELSE IF body.shape \in ThrowingShapes THEN Throws(ErrBody)
     ELSE IF body.type = "audio"
          THEN wpc' = "ack" /\ UNCHANGED <<responses, thrown>>
     ELSE IF body.type = "text"
          THEN wpc' = "thanks" /\ UNCHANGED <<responses, thrown>>
     ELSE Returns
  /\ UNCHANGED steps
  /\ WebhookFrame

\* the catch block of processVoiceNote up to its await: the error is
\* kept and the apology is sent (lines 199-210)
Catch(err) ==
  /\ thrown' = err
  /\ wpc' = "apology"
  /\ UNCHANGED responses

\* Settles issuing the next call also when the call was rejected
SettlesRegardless(at, call, arg, ok, next) ==
  /\ wpc = at
  /\ steps' = Append(steps, Step(call, arg, ok))
  /\ wpc' = next /\ UNCHANGED <<responses, thrown>>
  /\ UNCHANGED request
  /\ WebhookFrame

\* an awaited call of the try block settles: the next call is issued, or
\* the catch block is entered (lines 169-193)
Settles(at, call, arg, ok, next) ==
  /\ wpc = at
  /\ steps' = Append(steps, Step(call, arg, ok))
  /\ IF ok
     THEN wpc' = next /\ UNCHANGED <<responses, thrown>>
     ELSE Catch(ErrorOf(call))
  /\ UNCHANGED request
  /\ WebhookFrame

\* the acknowledgment (line 169)
AckSettles(ok) == Settles("ack", "sendMessage", AckText, ok, "mediaUrl")

\* whatsappService.getMediaUrl (line 173)
MediaUrlSettles(ok) ==
  Settles("mediaUrl", "getMediaUrl", "mediaId", ok, "download")

\* whatsappService.downloadMedia (line 177)
DownloadSettles(ok) ==
  Settles("download", "downloadMedia", "mediaUrl", ok, "pipeline")

\* voiceProcessor.processVoiceNote (line 185)
PipelineSettles(ok) ==
  Settles("pipeline", "processVoiceNote", DefaultMime(request.body.mime), ok,
          "reply")

\* whatsappService.sendTranslatedResponse (line 193): on success the
\* handler returns and the route answers 200
ReplySettles(ok) ==
  /\ wpc = "reply"
  /\ steps' = Append(steps, Step("sendTranslatedResponse", "translations", ok))
  /\ IF ok THEN Returns ELSE Catch(ErrorOf("sendTranslatedResponse"))
  /\ UNCHANGED request
  /\ WebhookFrame

\* ApologySettles throwing the error of the failed apology in place of the
\* error it caught
ApologySettlesReplacing(ok) ==
  /\ wpc = "apology"
  /\ steps' = Append(steps, Step("sendMessage", ApologyText, ok))
  /\ Throws(IF ok THEN thrown ELSE ErrApology)
  /\ UNCHANGED request
  /\ WebhookFrame

\* the apology settles: its failure is logged, and the error caught is
\* thrown again (lines 209-220)
ApologySettles(ok) ==
  /\ wpc = "apology"
  /\ steps' = Append(steps, Step("sendMessage", ApologyText, ok))
  /\ Throws(thrown)
  /\ UNCHANGED request
  /\ WebhookFrame

\* the answer to a text message settles (lines 135, 145-156)
ThanksSettles(ok) ==
  /\ wpc = "thanks"
  /\ steps' = Append(steps, Step("sendMessage", ThanksText, ok))
  /\ IF ok THEN Returns ELSE Throws(ErrorOf("sendMessage"))
  /\ UNCHANGED request
  /\ WebhookFrame

WebhookNext ==
  \/ \E mode \in Modes, token \in Tokens, challenge \in Challenges :
       Get(mode, token, challenge)
  \/ \E body \in Bodies : Post(body)
  \/ \E ok \in BOOLEAN : AckSettles(ok)
  \/ \E ok \in BOOLEAN : MediaUrlSettles(ok)
  \/ \E ok \in BOOLEAN : DownloadSettles(ok)
  \/ \E ok \in BOOLEAN : PipelineSettles(ok)
  \/ \E ok \in BOOLEAN : ReplySettles(ok)
  \/ \E ok \in BOOLEAN : ApologySettles(ok)
  \/ \E ok \in BOOLEAN : ThanksSettles(ok)

WebhookSpec == Init /\ [][WebhookNext]_vars

\* ------------------------------------------------------------------------
\* startTimer and endTimer of monitoringService called on their own
\* (monitoring.js 32-64)
\* ------------------------------------------------------------------------

\* process.hrtime.bigint() does not go back: the time that has passed
\* since the previous call
Elapsed == {0, 1}

\* the timer calls do not change this state
TimerFrame ==
  UNCHANGED <<run, pc, outcome, audioBuffer, mimeType, heapUsed,
              memoryChecked, tempFilePath, processedFilePath,
              transcriptionResult, transcribedText, detectedLanguage,
              translationCall, result, error, dir, wrote, log, failedAt,
              cleanups, adapterVars, besideTimer>>

\* monitoringService.startTimer(id) (lines 32-35)
StartTimerCall(id, dt) ==
  /\ lastOp.n < MaxOps
  /\ clock' = clock + dt
  /\ LET mon == startTimer(Monitor(timers, metrics), id)
     IN  timers' = mon.timers /\ metrics' = mon.metrics
  /\ startTimes' = [startTimes EXCEPT ![id] = clock']
  /\ lastOp' = [op |-> "start", id |-> id, n |-> lastOp.n + 1]
  /\ UNCHANGED returned
  /\ TimerFrame

\* monitoringService.endTimer(id) (lines 43-64)
EndTimerCall(id, dt) ==
  /\ lastOp.n < MaxOps
  /\ clock' = clock + dt
  /\ LET mon == endTimer(Monitor(timers, metrics), id)
     IN  timers' = mon.timers /\ metrics' = mon.metrics
  /\ returned' = duration(Monitor(timers, metrics), startTimes, id, clock')
  /\ startTimes' = [startTimes EXCEPT ![id] = 0]
  /\ lastOp' = [op |-> "end", id |-> id, n |-> lastOp.n + 1]
  /\ TimerFrame

TimerNext ==
  \/ \E id \in TimerIds, dt \in Elapsed : StartTimerCall(id, dt)
  \/ \E id \in TimerIds, dt \in Elapsed : EndTimerCall(id, dt)

TimerSpec == Init /\ [][TimerNext]_vars

\* ---------------------------------------------------------------------
\* monitoringService.metrics: the entries kept per metric name.  An entry
\* is written as the serial number of its recording under that name.

\* bound: recordMetric and recordError calls in one behaviour
MaxRecordings == 3

\* recordings made under a name before the behaviour starts
StartFills == {0, MaxMetricEntries - 1, MaxMetricEntries}

\* the entries held after k recordings under one name
Held(k) ==
  LET kept == IF k > MaxMetricEntries THEN MaxMetricEntries ELSE k
  IN [i \in 1..kept |-> k - kept + i]

\* serial number of the next recording under a name
NextSerial(list) == IF list = <<>> THEN 1 ELSE list[Len(list)] + 1

\* recordMetric keeping the oldest entries
recordMetricEntriesOldest(list, metric) ==
  LET pushed == Append(list, metric)
  IN IF Len(pushed) > MaxMetricEntries
     THEN SubSeq(pushed, 1, MaxMetricEntries)
     ELSE pushed

\* recordMetric: push, then shift once when more than 1000 are held
recordMetricEntries(list, metric) ==
  LET pushed == Append(list, metric)
  IN IF Len(pushed) > MaxMetricEntries THEN Tail(pushed) ELSE pushed

\* getMetricSummary: null for no entries, else count and lastUpdated
getMetricSummary(held, name) ==
  LET list == IF name \in DOMAIN held THEN held[name] ELSE <<>>
  IN IF Len(list) = 0
     THEN [name |-> name, isNull |-> TRUE, count |-> 0]
     ELSE [name |-> name, isNull |-> FALSE, count |-> Len(list)]

MetricFrame == UNCHANGED <<pipelineVars, adapterVars, besideMetric>>

RecordMetricCall(name) ==
  /\ recordings < MaxRecordings
  /\ entries' = [entries EXCEPT
                   ![name] = recordMetricEntries(@, NextSerial(@))]
  /\ recordings' = recordings + 1
  /\ UNCHANGED summary
  /\ MetricFrame

\* recordError: recordMetric('error_count', 1, tags)
RecordErrorCall == RecordMetricCall("error_count")

GetMetricSummaryCall(name) ==
  /\ summary' = getMetricSummary(entries, name)
  /\ UNCHANGED <<entries, recordings>>
  /\ MetricFrame

MetricInit ==
  /\ PipelineInit
  /\ UnstageIdle
  /\ ConcIdle
  /\ FormatIdle
  /\ WebhookIdle
  /\ TimerIdle
  /\ ValidationIdle
  /\ OverlapIdle
  /\ entries \in [RecordedNames -> {Held(k) : k \in StartFills}]
  /\ summary = NoSummary
  /\ recordings = 0

MetricNext ==
  \/ RecordMetricCall("test_metric")
  \/ RecordErrorCall
  \/ \E name \in RecordedNames \cup {"never_recorded"} :
       GetMetricSummaryCall(name)

MetricSpec == MetricInit /\ [][MetricNext]_vars

\* ---------------------------------------------------------------------
\* Validation.validateAudioSize and Validation.validateResponse, applied
\* to arguments of every JavaScript kind.

\* the maxSize arguments: the one of the tests and the configured one
SizeLimits == {1000, maxFileSize}

\* lengths around each limit
Lengths == UNION {{0, m - 1, m, m + 1} : m \in SizeLimits}

\* kinds of value that carry a length property
LengthKinds == {"buffer", "string", "array"}

\* the values passed as data / audioBuffer
DataKinds ==
  {"undefined", "null", "boolean", "number", "NaN", "function", "object"}
    \cup LengthKinds
DataValues ==
  [kind : DataKinds \ LengthKinds, length : {0}]
    \cup [kind : LengthKinds, length : Lengths]

\* the dataType arguments: the five of the switch and one it has no case for
DataTypes == {"object", "array", "string", "number", "buffer", "other"}

\* typeof data
typeof(data) ==
  CASE data.kind \in {"null", "object", "array", "buffer"} -> "object"
    [] data.kind \in {"number", "NaN"} -> "number"
    [] OTHER -> data.kind

isArray(data) == data.kind = "array"
isBuffer(data) == data.kind = "buffer"
isNaN(data) == data.kind = "NaN"

\* error messages, without the `${dataType}` in front
ErrNullish == "is undefined or null"
ErrNotObject == "is not an object"
ErrNotArray == "is not an array"
ErrNotString == "is not a string"
ErrNotNumber == "is not a valid number"
ErrNotBuffer == "is not a Buffer"
ErrAudioNotBuffer == "Audio data is not a Buffer"

\* what a try block does: throw an error or return a value
Thrown(err) == [threw |-> TRUE, isValid |-> FALSE, error |-> err,
                data |-> "none"]
Valid(data) == [threw |-> FALSE, isValid |-> TRUE, error |-> NoError,
                data |-> data]

\* catch (error) { logger.error(...); return {isValid: false, error} }
Caught(attempt) ==
  IF attempt.threw
  THEN [threw |-> FALSE, isValid |-> FALSE, error |-> attempt.error,
        data |-> "none"]
  ELSE attempt

\* validateAudioSize rejecting a buffer of exactly maxSize bytes
validateAudioSizeStrict(buffer, maxSize) ==
  Caught(IF ~isBuffer(buffer) THEN Thrown(ErrAudioNotBuffer)
         ELSE IF buffer.length >= maxSize THEN Thrown(ErrTooLarge)
         ELSE Valid("none"))

validateAudioSize(buffer, maxSize) ==
  Caught(IF ~isBuffer(buffer) THEN Thrown(ErrAudioNotBuffer)
         ELSE IF buffer.length > maxSize THEN Thrown(ErrTooLarge)
         ELSE Valid("none"))

\* the switch of validateResponse, without the isNaN test
TypeSwitchLoose(data, dataType) ==
  CASE dataType = "object" /\ (typeof(data) # "object" \/ data.kind = "null")
         -> Thrown(ErrNotObject)
    [] dataType = "array" /\ ~isArray(data) -> Thrown(ErrNotArray)
    [] dataType = "string" /\ typeof(data) # "string" -> Thrown(ErrNotString)
    [] dataType = "number" /\ typeof(data) # "number" -> Thrown(ErrNotNumber)
    [] dataType = "buffer" /\ ~isBuffer(data) -> Thrown(ErrNotBuffer)
    [] OTHER -> Valid(data)

\* the switch of validateResponse: no default case
TypeSwitch(data, dataType) ==
  CASE dataType = "object" /\ (typeof(data) # "object" \/ data.kind = "null")
         -> Thrown(ErrNotObject)
    [] dataType = "array" /\ ~isArray(data) -> Thrown(ErrNotArray)
    [] dataType = "string" /\ typeof(data) # "string" -> Thrown(ErrNotString)
    [] dataType = "number" /\ (typeof(data) # "number" \/ isNaN(data))
         -> Thrown(ErrNotNumber)
    [] dataType = "buffer" /\ ~isBuffer(data) -> Thrown(ErrNotBuffer)
    [] OTHER -> Valid(data)

\* Validation.validateResponse (ErrorHandler.validateResponse delegates)
Validation_validateResponse(data, dataType) ==
  Caught(IF data.kind \in {"undefined", "null"} THEN Thrown(ErrNullish)
         ELSE TypeSwitch(data, dataType))

ValidationFrame == UNCHANGED <<pipelineVars, adapterVars, besideValidation>>

ValidateAudioSizeCall ==
  /\ validationArgs.fn = "validateAudioSize"
  /\ validationResult = NoValidation
  /\ validationResult' =
       validateAudioSize(validationArgs.data, validationArgs.maxSize)
  /\ UNCHANGED validationArgs
  /\ ValidationFrame

ValidateResponseCall ==
  /\ validationArgs.fn = "validateResponse"
  /\ validationResult = NoValidation
  /\ validationResult' =
       Validation_validateResponse(validationArgs.data,
                                   validationArgs.dataType)
  /\ UNCHANGED validationArgs
  /\ ValidationFrame

ValidationInit ==
  /\ PipelineInit
  /\ UnstageIdle
  /\ ConcIdle
  /\ FormatIdle
  /\ WebhookIdle
  /\ TimerIdle
  /\ MetricIdle
  /\ OverlapIdle
  /\ validationArgs \in
       [fn : {"validateAudioSize"}, data : DataValues, maxSize : SizeLimits]
         \cup [fn : {"validateResponse"}, data : DataValues,
               dataType : DataTypes]
  /\ validationResult = NoValidation

ValidationNext == ValidateAudioSizeCall \/ ValidateResponseCall

ValidationSpec == ValidationInit /\ [][ValidationNext]_vars

\* ---------------------------------------------------------------------
\* Runs of processVoiceNote that overlap in time: each run calls
\* startTimer('voice_processing') when it begins and
\* endTimer('voice_processing') in its finally block, on the one
\* monitoringService of the process; the runs interleave at their awaits.

\* the overlapping runs leave this state alone
OverlapFrame ==
  UNCHANGED <<run, pc, outcome, audioBuffer, mimeType, heapUsed,
              memoryChecked, tempFilePath, processedFilePath,
              transcriptionResult, transcribedText, detectedLanguage,
              translationCall, result, error, dir, wrote, log, failedAt,
              cleanups, adapterVars, unstageVars, concVars, formatVars,
              webhookVars, metricVars, validationVars, lastOp>>

\* a run begins and goes on to its first await (voiceProcessor.js 76-102)
RunStarts(r, dt) ==
  /\ runTimes[r].pc = "idle"
  /\ clock' = clock + dt
  /\ LET mon == recordMetric(startTimer(Monitor(timers, metrics),
                                        "voice_processing"),
                             "voice_processing_attempts")
     IN  timers' = mon.timers /\ metrics' = mon.metrics
  /\ startTimes' = [startTimes EXCEPT !["voice_processing"] = clock']
  /\ runTimes' = [runTimes EXCEPT ![r] =
                    [@ EXCEPT !.pc = "running", !.started = clock']]
  /\ UNCHANGED returned
  /\ OverlapFrame

\* the last awaited call of a run has settled: the catch block when it
\* failed, then endTimer and recordMemoryUsage of the finally block
\* (voiceProcessor.js 166-188)
RunEnds(r, dt, failed) ==
  /\ runTimes[r].pc = "running"
  /\ clock' = clock + dt
  /\ LET mon == Monitor(timers, metrics)
         caught == IF failed THEN recordError(mon) ELSE mon
         final == recordMemoryUsage(endTimer(caught, "voice_processing"))
     IN  /\ timers' = final.timers
         /\ metrics' = final.metrics
         /\ returned' = duration(mon, startTimes, "voice_processing", clock')
         /\ runTimes' = [runTimes EXCEPT ![r] =
                           [pc |-> "ended", started |-> @.started,
                            ended |-> clock', measured |-> returned',
                            found |-> "voice_processing" \in timers]]
  /\ startTimes' = [startTimes EXCEPT !["voice_processing"] = 0]
  /\ OverlapFrame

OverlapNext ==
  \/ \E r \in Runs, dt \in Elapsed : RunStarts(r, dt)
  \/ \E r \in Runs, dt \in Elapsed, failed \in BOOLEAN : RunEnds(r, dt, failed)

OverlapSpec == Init /\ [][OverlapNext]_vars

\* ---------------------------------------------------------------------
\* The delivery of one voice note: processVoiceNote of the webhook with
\* the run of VoiceProcessor.processVoiceNote it awaits (webhook.js 185).

\* a step of the run the webhook is waiting for; the run is given the
\* mimeType of the message
RunStep ==
  \/ StartRun
  \/ \E buf \in Buffers, used \in HeapUsedSamples, id \in Ids :
       Admit(buf, DefaultMime(request.body.mime), used, id)
  \/ SaveDone
  \/ \E partial \in BOOLEAN : SaveFails(partial)
  \/ ConvertDone
  \/ \E partial \in BOOLEAN : ConvertFails(partial)
  \/ \E r \in SttResponses : SttResolves(r)
  \/ SttRejects
  \/ \E kind \in ResultKinds : TranslationResolves(kind)
  \/ TranslationRejects
  \/ Finalize
  \/ \E unlinkOk \in BOOLEAN : Cleanup(unlinkOk)

\* the promise of the run settles once its finally block is through: the
\* webhook goes on with the result, or enters its catch block
PipelineReturns ==
  /\ pc = "Done"
  /\ PipelineSettles(outcome = "completed")

DeliveryNext ==
  \/ \E body \in Bodies : body.type = "audio" /\ Post(body)
  \/ \E ok \in BOOLEAN : AckSettles(ok)
  \/ \E ok \in BOOLEAN : MediaUrlSettles(ok)
  \/ \E ok \in BOOLEAN : DownloadSettles(ok)
  \/ wpc = "pipeline" /\ pc # "Done" /\ RunStep
  \/ PipelineReturns
  \/ \E ok \in BOOLEAN : ReplySettles(ok)
  \/ \E ok \in BOOLEAN : ApologySettles(ok)

DeliverySpec == Init /\ [][DeliveryNext]_vars

TypeOK ==
  /\ run \in 0..MaxRuns
  /\ pc \in {"Idle", "Admitting", "Saving", "Converting", "Transcribing",
             "Translating", "Finalizing", "Cleanup", "Done"}
  /\ outcome \in {"none", "completed", "failed"}
  /\ audioBuffer \in Buffers \cup {NoBuffer}
  /\ mimeType \in MimeTypes
  /\ dir \subseteq [id : 1..MaxRuns, ext : {"ogg", "wav", "mp4", "mp3"}, conv : BOOLEAN]
  /\ wrote \subseteq dir \cup wrote
  /\ timers \subseteq TimerIds
  /\ recognition \in
       {NoRecognition} \cup [text : Texts, language : {primaryLanguage, "es-ES"}]
  /\ \A c \in Codes :
       /\ calls[c].status \in {"idle", "pending", "resolved", "rejected"}
       /\ calls[c].translation \in ServiceTexts \cup Markers
  /\ translations = NoTranslations
       \/ translations \in
            [DOMAIN supportedLanguages ->
               ServiceTexts \cup Markers \cup {Undefined}]

\* ------------------------------------------------------------------------
\* Properties
\* ------------------------------------------------------------------------

\* the files of the staging directory that the current run created
StagedByRun == wrote \cap dir

\* the run has returned or thrown
Settled == pc = "Done"

\* C1: once a run has returned or thrown, no file that the run wrote into
\* the staging directory still exists.
C1_NoStagedFileAfterRun == Settled => StagedByRun = {}

\* C2: at every moment at most one staged file created by the run exists
\* in the staging directory, for every MIME type.
C2_AtMostOneStagedFile == Cardinality(StagedByRun) <= 1

StageOrder ==
  <<"stage_call", "stage_return", "stt_call", "stt_return",
    "translate_call", "translate_return">>

IsPrefix(s, t) == Len(s) <= Len(t) /\ SubSeq(t, 1, Len(s)) = s

\* C3: within one run the stages execute strictly in sequence: the calls
\* and returns of staging, transcription and translation happen in this
\* order, each at most once; the staged file has been written when the
\* transcription adapter is called, and the transcription adapter has
\* returned when the translation adapter is called.
C3_StagesInSequence ==
  /\ IsPrefix(log, StageOrder)
  /\ pc = "Transcribing" => processedFilePath \in wrote
  /\ translationCall.called => transcriptionResult # NoResponse

\* C3 witness: a run in which all three stages were called and returned
C3_Witness == log = StageOrder /\ pc = "Finalizing"

\* processAudioBuffer was called: the payload passed admission
Admitted == Len(log) >= 1

\* the run failed at admission: nothing was staged, no adapter was called
RejectedAtAdmission ==
  /\ outcome = "failed"
  /\ failedAt = "Admitting"
  /\ log = <<>>

\* the pending step of the run can fail: admission can reject, and each
\* awaited call (writeFile, ffmpeg, transcription, translation) can reject
CanFail ==
  CASE pc = "Admitting" ->
         ENABLED (/\ \E id \in Ids :
                       Admit(maxFileSize + 1, "audio/ogg", HeapTotal, id)
                  /\ outcome' = "failed")
    [] pc = "Saving" -> ENABLED (SaveFails(FALSE) /\ outcome' = "failed")
    [] pc = "Converting" -> ENABLED (ConvertFails(FALSE) /\ outcome' = "failed")
    [] pc = "Transcribing" -> ENABLED (SttRejects /\ outcome' = "failed")
    [] pc = "Translating" -> ENABLED (TranslationRejects /\ outcome' = "failed")
    [] OTHER -> FALSE

C4_StatePart ==
  /\ Settled => outcome \in {"completed", "failed"}
  /\ outcome = "completed" => error = NoError /\ validateResponse(result)
  /\ outcome = "failed" => error # NoError
  /\ State \in {"Admitting", "Staged", "Transcribed"} => CanFail

C4_StepPart ==
  (outcome # "none" /\ run' = run) =>
    /\ pc = "Cleanup" /\ pc' = "Done"
    /\ outcome' = outcome /\ error' = error /\ result' = result
    /\ log' = log /\ wrote' = wrote /\ translationCall' = translationCall

\* C4: a run ends in exactly one of Completed (a result is returned, no
\* error) or Failed (an error is thrown); while the run is in Admitting,
\* Staged or Transcribed its pending step can fail (from Translated the
\* failure depends on the value the translation adapter resolved with, and
\* the witness is such a run); and once the outcome is decided the only
\* step of the run is the cleanup step, after which it terminates: no stage
\* is started and the outcome does not change.
C4_OneOutcomeFailedAbsorbing == [](C4_StatePart) /\ [][C4_StepPart]_vars

\* C4 witness: a run that failed after the translation adapter had
\* returned, cleaned up and terminated
C4_Witness ==
  Settled /\ outcome = "failed" /\ failedAt = "Translated" /\ cleanups = 1

\* C5 as stated: a payload of exactly the maximum size is admitted and
\* proceeds to staging; one byte more is rejected at admission.
C5_Original ==
  /\ audioBuffer = maxFileSize => Admitted
  /\ audioBuffer = maxFileSize + 1 => RejectedAtAdmission

\* C5 (amended): a payload of exactly the maximum size is never rejected
\* for its size; it proceeds to staging unless the memory check, which
\* applies to it, rejects it for insufficient memory; a payload one byte
\* larger is always rejected at admission.
C5_AdmissionBoundary ==
  /\ audioBuffer = maxFileSize =>
       /\ error # ErrTooLarge
       /\ memoryChecked
       /\ Admitted <=> hasSufficientMemory(heapUsed, HeapTotal)
       /\ ~Admitted => RejectedAtAdmission /\ error = ErrInsufficientMemory
  /\ audioBuffer = maxFileSize + 1 =>
       /\ RejectedAtAdmission
       /\ error \in {ErrTooLarge, ErrInsufficientMemory}

\* C5 witness: a payload of exactly the maximum size has been admitted and
\* its staging write is under way
C5_Witness == audioBuffer = maxFileSize /\ pc = "Saving"

\* C6: for a payload larger than the maximum the run fails at admission:
\* the staging step is never invoked, no file is written, and neither
\* adapter is called.
C6_OversizedNeverStaged ==
  audioBuffer > maxFileSize =>
    /\ RejectedAtAdmission
    /\ pc = "Done"
    /\ tempFilePath = NoPath /\ processedFilePath = NoPath
    /\ wrote = {}
    /\ transcriptionResult = NoResponse
    /\ ~translationCall.called
    /\ cleanups = 0

\* C6 witness: the 17,000,000 byte payload, rejected for its size
C6_Witness ==
  audioBuffer = 17000000 /\ Settled /\ error = ErrTooLarge

\* C7: a payload no larger than half the maximum is never rejected for
\* insufficient memory, whatever the heap utilisation; the memory check is
\* consulted only for payloads strictly larger than half the maximum.
C7_SmallPayloadNoMemoryCheck ==
  /\ (audioBuffer >= 0 /\ 2 * audioBuffer <= maxFileSize) =>
       /\ ~memoryChecked
       /\ error # ErrInsufficientMemory
       /\ Admitted
  /\ memoryChecked => 2 * audioBuffer > maxFileSize

\* C7 witness: a payload of exactly half the maximum is admitted while the
\* heap is above the threshold
C7_Witness ==
  /\ audioBuffer = maxFileSize \div 2
  /\ ~hasSufficientMemory(heapUsed, HeapTotal)
  /\ pc = "Saving"

\* C8: a payload larger than half the maximum is rejected for insufficient
\* memory exactly when heap utilisation exceeds 80%; at exactly 80% it is
\* not rejected for memory.
C8_RejectsAboveThresholdOnly ==
  2 * audioBuffer > maxFileSize =>
    (error = ErrInsufficientMemory
       <=> heapUsed * 100 > MemoryThreshold * HeapTotal)

\* the transcription adapter returned text that is empty or only whitespace
EmptyTranscript ==
  /\ transcriptionResult.shape \in {"string", "object"}
  /\ Len(trim(transcriptionResult.text)) = 0

\* C9: when the transcription adapter returns empty or whitespace-only
\* text, as a bare string or as a {text, language} object, the run fails
\* with the 'no text detected' error of the transcription stage, the
\* translation adapter is not called, and the staged file is removed.
C9_EmptyTranscriptNoSpeech ==
  EmptyTranscript =>
    /\ outcome = "failed"
    /\ failedAt = "Staged"
    /\ error = ErrNoText
    /\ ~translationCall.called
    /\ Settled => processedFilePath \notin dir

C11_DetectedLanguagePassedOn ==
  (translationCall.called /\ recognition # NoRecognition) =>
    /\ translationCall.text = recognition.text
    /\ translationCall.sourceLanguage = recognition.language

\* the namedTranslations object of the run has been built
MapBuilt == translations # NoTranslations

\* C12: once the translation stage has succeeded, the keys of the
\* TranslationMap are exactly the names of config.supportedLanguages.
C12_KeysAreConfiguredNames ==
  /\ MapBuilt => DOMAIN translations = DOMAIN supportedLanguages
  /\ (result.kind = "object" /\ recognition # NoRecognition) => MapBuilt

\* C12 witness: a map built from calls of which one failed and one
\* returned a translation
C12_Witness ==
  /\ MapBuilt
  /\ pc = "Finalizing"
  /\ calls["en"].status = "rejected"
  /\ calls["es"] = [status |-> "resolved", translation |-> "translated"]

\* the entry the map should hold for a language: the translation the
\* service returned for it, or the failure marker of that language
ExpectedEntry(name) ==
  LET c == calls[supportedLanguages[name]]
  IN  IF c.status = "rejected" THEN Marker(supportedLanguages[name])
      ELSE c.translation

\* C13: in the TranslationMap of a successful run every configured
\* language has an entry that is a string, the translation returned for
\* that language or its failure marker; no entry is undefined.
C13_EveryEntryIsString ==
  (outcome = "completed" /\ MapBuilt) =>
    \A name \in DOMAIN supportedLanguages :
      /\ name \in DOMAIN translations
      /\ translations[name] # Undefined
      /\ translations[name] = ExpectedEntry(name)

\* the target languages whose translate call raised an error
FailedCalls == {c \in Codes : calls[c].status = "rejected"}

\* C14: when the calls of some but not all target languages raised an
\* error, the entry of every other language is exactly the translation the
\* service returned for it, the entry of every failed language is its
\* failure marker, and the run does not fail: it ends Completed.
C14_PartialFailureKeepsOthers ==
  (MapBuilt /\ FailedCalls # {} /\ FailedCalls # Codes) =>
    /\ \A name \in DOMAIN supportedLanguages :
         LET c == supportedLanguages[name]
         IN  IF c \in FailedCalls
             THEN translations[name] \in Markers
             ELSE translations[name] = calls[c].translation
    /\ outcome # "failed"
    /\ Settled => outcome = "completed"

C15_StatePart ==
  /\ (\E c \in Codes : calls[c] # CallIdle) =>
       (\A c \in Codes : calls[c] # CallIdle)
  /\ (pc = "Translating" /\ recognition # NoRecognition) =>
       (\A c \in Codes : calls[c] # CallIdle)
  /\ MapBuilt => \A c \in Codes : IsSettled(calls[c])
  /\ MapBuilt =>
       \A name \in DOMAIN supportedLanguages :
         translations[name] =
           JsOr(calls[supportedLanguages[name]].translation, Undefined)

C15_StepPart ==
  \A c, d \in Codes :
    (c # d /\ calls[c] = CallPending /\ calls[d] = CallPending) =>
      ~(IsSettled(calls'[c]) /\ IsSettled(calls'[d]))

\* C15: the translate calls of all target languages are issued in one
\* step, before any of them has settled; each step settles one call only,
\* so a call that fails leaves the others pending; the TranslationMap is
\* built only when every call has settled; and each of its entries is
\* determined by the outcome of that language's call alone, whatever the
\* order in which the calls completed.
C15_FanOutFanIn == [](C15_StatePart) /\ [][C15_StepPart]_vars

\* C15 witness: a map built after the calls completed in another order
\* than they were issued in, one of them resolving after another had failed
C15_Witness ==
  MapBuilt /\ pc = "Finalizing" /\ outOfOrder /\ settledAfterFailure

\* C17: when the translate call of every target language has failed, the
\* run does not complete: it ends Failed at the translation stage.
C17_FullFailureAborts ==
  FailedCalls = Codes =>
    /\ outcome # "completed"
    /\ Settled => outcome = "failed" /\ failedAt = "Transcribed"

\* ------------------------------------------------------------------------
\* Properties of error handling (Spec)
\* ------------------------------------------------------------------------

\* C16: when the call of the translation adapter throws, the run ends
\* Failed at the translation stage, no result is returned, and once the
\* failure is reported no file that the run staged is left.
C16_TranslationThrowFails ==
  error = ErrTranslation =>
    /\ outcome = "failed"
    /\ failedAt = "Transcribed"
    /\ result = NoResult
    /\ Settled => StagedByRun = {}

\* the Error object the run throws: an Error constructed from a message
\* (or the adapter's Error, rethrown as it is); it has no other field
ThrownError == [message |-> error]

\* the stage identifier of a state of the run
StageId(state) ==
  CASE state = "Admitting" -> IF log = <<>> THEN "admission" ELSE "staging"
    [] state = "Staged" -> "transcription"
    [] state = "Transcribed" -> "translation"
    [] state = "Translated" -> "validation"
    [] OTHER -> "none"

\* C18: the error of every failed run carries the identifier of the stage
\* at which it occurred, together with the original message.
C18_FailureCarriesStage ==
  outcome = "failed" =>
    /\ "message" \in DOMAIN ThrownError
    /\ "stage" \in DOMAIN ThrownError
    /\ ThrownError.stage = StageId(failedAt)

\* the messages the failure of the run can have had where it was raised,
\* read off the inputs of the run and the point at which it failed
UnderlyingMessages ==
  CASE failedAt = "Admitting" /\ log = <<>> ->
         IF memoryChecked /\ ~hasSufficientMemory(heapUsed, HeapTotal)
         THEN {ErrInsufficientMemory} ELSE {ErrTooLarge}
    [] failedAt = "Admitting" /\ log # <<>> ->
         IF IsCompatible(tempFilePath)
         THEN {ErrWriteFile} ELSE {ErrWriteFile, ErrFfmpeg}
    [] failedAt = "Staged" ->
         IF transcriptionResult = NoResponse THEN {ErrStt}
         ELSE IF Normalise(transcriptionResult).err # NoError
         THEN {Normalise(transcriptionResult).err}
         ELSE {ErrNoText}
    [] failedAt = "Transcribed" -> {ErrTranslation}
    [] failedAt = "Translated" ->
         IF ~result.hasTranslations THEN {ErrTypeError} ELSE {ErrValidation}
    [] OTHER -> {}

\* C19: the message of the error a failed run throws is the message the
\* failure had where it was raised, never the generic message; and a run
\* returns a result only when every stage returned and the result is valid.
C19_OriginalErrorRethrown ==
  /\ outcome = "failed" =>
       /\ error \in UnderlyingMessages
       /\ error # ErrUnknown
  /\ outcome = "completed" =>
       /\ failedAt = "none"
       /\ log = StageOrder
       /\ result.hasTranslations /\ validateResponse(result)

\* C19 witness: the translation adapter rejected and the run has thrown
\* the adapter's error
C19_Witness == Settled /\ outcome = "failed" /\ error = ErrTranslation

\* the cleanup of the run was called and the file is still there
CleanupFailed ==
  Settled /\ cleanups > 0 /\ processedFilePath \in dir

C20_StatePart ==
  CleanupFailed =>
    /\ error # ErrUnlink
    /\ outcome = "completed" => error = NoError /\ validateResponse(result)
    /\ outcome = "failed" => error \in UnderlyingMessages

C20_StepPart ==
  pc = "Cleanup" =>
    outcome' = outcome /\ error' = error /\ result' = result

\* C20: the cleanup step, whether the removal succeeds or fails, leaves
\* the outcome, the error and the result of the run as they were; after a
\* failed removal a successful run still has its result and no error, and
\* a failed run still has the error of its failure.
C20_CleanupFailureKeepsOutcome == [](C20_StatePart) /\ [][C20_StepPart]_vars

\* C20 witness: a successful run whose staged file could not be removed
C20_Witness == CleanupFailed /\ outcome = "completed"

\* ------------------------------------------------------------------------
\* C21: cleanupTempFile never raises, whether the file exists, was never
\* created or was already removed, called twice in sequence or by two
\* callers at once.  As stated, a second call leaves the staging directory
\* as the first call left it.
\* ------------------------------------------------------------------------

\* this step belongs to a call of caller c for handle p
ActsOn(c, p) == ucalls'[c] # ucalls[c] /\ ucalls'[c].path = p

\* C21 as stated: no call raises, and a call for a handle an earlier call
\* has returned for leaves the staging directory as it is
C21_Original ==
  /\ [](raised = FALSE)
  /\ [][\A c \in Callers, p \in Handles :
          (ActsOn(c, p) /\ p \in attempted) => dir' = dir]_vars

\* C21 amended: no call raises; once a call has returned with the file of
\* the handle absent (it removed the file or found none), the file stays
\* absent and a later call for the handle leaves the staging directory as
\* it is.  After a call whose removal failed a later call may still remove
\* the file.
C21_NeverRaisesIdempotent ==
  /\ [](raised = FALSE /\ cleaned \cap dir = {})
  /\ [][\A c \in Callers, p \in Handles :
          (ActsOn(c, p) /\ p \in cleaned) => dir' = dir]_vars

\* two callers saw the same file, one removed it, the other's unlink found
\* it gone, and both calls have returned
C21_Witness ==
  /\ \A c \in Callers : ucalls[c].pc = "idle" /\ ucalls[c].n = 1
                        /\ ucalls[c].sawFile
  /\ ucalls["first"].path = ucalls["second"].path
  /\ swallowed = {"ENOENT"}
  /\ ucalls["first"].path \notin dir
  /\ raised = FALSE

\* ------------------------------------------------------------------------
\* C22: the staging step derives the extension from the MIME type by a
\* fixed table; every other MIME type, an absent one included, gives ogg
\* and never makes the staging step fail on account of the MIME type.
\* ------------------------------------------------------------------------

\* the table of the claim, for the MIME type the run was called with
TableExtension ==
  IF mimeType \in {"audio/ogg", "audio/ogg; codecs=opus"} THEN "ogg"
  ELSE IF mimeType = "audio/wav" THEN "wav"
  ELSE IF mimeType = "audio/mp4" THEN "mp4"
  ELSE IF mimeType = "audio/mpeg" THEN "mp3"
  ELSE "ogg"

\* C22: a run that was not rejected for size or memory has, whatever its
\* MIME type, gone on to write a file with the extension of the table; a
\* staging failure is a failure of the write or of the conversion
C22_ExtensionFromTable ==
  (pc \notin {"Idle", "Admitting"} /\ ~RejectedAtAdmission) =>
    /\ tempFilePath # NoPath
    /\ tempFilePath.ext = TableExtension
    /\ (outcome = "failed" /\ failedAt = "Admitting")
         => error \in {ErrWriteFile, ErrFfmpeg}

\* a payload without a MIME type has been staged as ogg and converted
C22_Witness ==
  /\ mimeType = "undefined"
  /\ pc = "Transcribing"
  /\ tempFilePath.ext = "ogg"
  /\ tempFilePath \in dir

\* ------------------------------------------------------------------------
\* C24: on every successful run the returned result has originalText equal
\* to the transcript as the transcription stage produced it, translations
\* equal to the map the translation stage of the same run built, and a
\* processedAt timestamp; exactly one result is created per successful run.
\* ------------------------------------------------------------------------
C24_ResultOfCompletedRun ==
  outcome = "completed" =>
    /\ result.originalText = recognition.text
    /\ result.translations = translations
    /\ result.processedAt = IsoTimestamp
    /\ resultsCreated = 1

\* a run has completed on a transcript with one translation failed
C24_Witness ==
  /\ outcome = "completed"
  /\ result.originalText = <<"a">>
  /\ FailedCalls # {}
  /\ pc = "Done"

\* ------------------------------------------------------------------------
\* C25: if every external call eventually returns or throws, every run
\* eventually terminates in Completed or Failed and its staged file is
\* eventually removed.
\* ------------------------------------------------------------------------
C25_TerminatesAndUnstages ==
  (pc = "Admitting") ~>
     (pc = "Done" /\ outcome \in {"completed", "failed"} /\ StagedByRun = {})

\* ------------------------------------------------------------------------
\* C23: when several runs execute concurrently, each run's staged file
\* has a name that no other live run uses: under every interleaving and
\* every choice of the timestamp and random component, no run overwrites,
\* reads or deletes another run's staged file.
\* ------------------------------------------------------------------------
C23_NamesUniqueNoInterference ==
  /\ \A r1, r2 \in Runs :
       (r1 # r2 /\ live[r1].pc \notin {"idle", "done"}
                /\ live[r2].pc \notin {"idle", "done"})
         => live[r1].name # live[r2].name
  /\ interference = {}

\* ------------------------------------------------------------------------
\* C26: formatTranslatedResponse renders, in this order, the header line,
\* an Original line if and only if an original text is given, one line
\* per entry of the translation map in the map's iteration order with the
\* first letter of the label capitalised, then the footer; the output is a
\* function of the two arguments and the call changes no state.
\* ------------------------------------------------------------------------

\* an original text is given: it is neither left out nor empty
OriginalGiven == formatArgs.originalText.given
                   /\ formatArgs.originalText.text # <<>>

\* position of the first entry line, less one
EntryOffset == IF OriginalGiven THEN 2 ELSE 1

C26_StatePart ==
  messageBody # <<>> =>
    LET map == formatArgs.translations
        n == Len(messageBody)
    IN  /\ n = EntryOffset + Len(map) + 1
        /\ messageBody[1].kind = "header"
        /\ messageBody[n].kind = "footer"
        /\ OriginalGiven <=>
             \E i \in 1..n : messageBody[i].kind = "original"
        /\ OriginalGiven =>
             /\ messageBody[2].kind = "original"
             /\ messageBody[2].text = formatArgs.originalText.text
        /\ \A i \in 1..Len(map) :
             LET line == messageBody[EntryOffset + i]
                 lang == map[i].lang
             IN  /\ line.kind = "entry"
                 /\ line.text = map[i].translation
                 /\ Len(line.label) = Len(lang)
                 /\ \A k \in 1..Len(lang) :
                      line.label[k] = IF k = 1 THEN Upper(lang[1])
                                      ELSE lang[k]

C26_StepPart ==
  UNCHANGED <<formatArgs, pipelineVars, adapterVars, besideFormat>>

C26_FormatReply == [](C26_StatePart) /\ [][C26_StepPart]_vars

\* a reply with an original text and two entries has been formatted
C26_Witness ==
  /\ Len(messageBody) = 5
  /\ OriginalGiven
  /\ formatArgs.translations[1].lang = <<"s", "e">>
  /\ formatArgs.translations[2].lang = <<"e", "s">>

\* ------------------------------------------------------------------------
\* C27: for an incoming audio message the webhook layer sends the
\* user-facing messages: if the pipeline and the reply send succeed,
\* exactly one translated reply and no apology is sent; if any step fails
\* (acknowledgment, media URL fetch, download, pipeline, reply send),
\* exactly one apology send is attempted and the error is then propagated;
\* a failing apology send does not replace the original error.
\* ------------------------------------------------------------------------

\* the request being handled is a POST with an audio message
IsVoiceNote == request.method = "POST" /\ request.body.type = "audio"

\* positions in steps of the apology sends, of the sends of the translated
\* reply, and of the calls of the try block that failed
ApologySends ==
  {i \in DOMAIN steps : steps[i].call = "sendMessage"
                          /\ steps[i].arg = ApologyText}
ReplySends == {i \in DOMAIN steps : steps[i].call = "sendTranslatedResponse"}
FailedSteps == {i \in DOMAIN steps : ~steps[i].ok} \ ApologySends

C27_WebhookSendsReplyOrApology ==
  IsVoiceNote =>
    /\ Cardinality(ApologySends) <= 1
    /\ Cardinality(ReplySends) <= 1
    /\ Cardinality(FailedSteps) <= 1
    /\ ApologySends # {} => FailedSteps # {}
    /\ wpc = "done" =>
         IF FailedSteps = {}
         THEN /\ Cardinality(ReplySends) = 1
              /\ ApologySends = {}
              /\ thrown = NoError
              /\ responses = <<Ok200>>
         ELSE /\ Cardinality(ApologySends) = 1
              /\ \A i \in FailedSteps :
                   /\ thrown = ErrorOf(steps[i].call)
                   /\ \A j \in ApologySends : j = i + 1
              /\ responses = <<Error500>>

\* the pipeline failed, the apology send failed too, and the error of the
\* pipeline has been propagated
C27_Witness ==
  /\ IsVoiceNote
  /\ wpc = "done"
  /\ \E i \in FailedSteps : steps[i].call = "processVoiceNote"
  /\ \E j \in ApologySends : ~steps[j].ok
  /\ thrown = ErrorOf("processVoiceNote")

\* ------------------------------------------------------------------------
\* C28: GET /webhook answers 200 with the challenge exactly when hub.mode
\* is 'subscribe' and hub.verify_token equals the configured token; 403
\* when mode and token are both present but either does not match; 400
\* when mode or token is missing; exactly one response per request.
\* ------------------------------------------------------------------------

\* a GET request has been handled
IsVerification == request.method = "GET" /\ wpc = "done"

\* a query parameter is missing: left out, or without a value
Missing(v) == v = Undefined \/ v = ""

C28_VerificationAnswer ==
  /\ request.method = "GET" => wpc = "done"
  /\ IsVerification =>
       LET matches == request.mode = "subscribe"
                        /\ request.token = VerifyToken
           missing == Missing(request.mode) \/ Missing(request.token)
       IN  /\ Len(responses) = 1
           /\ (responses[1].status = 200) <=> matches
           /\ matches => responses[1].body = request.challenge
           /\ (responses[1].status = 403) <=> (~missing /\ ~matches)
           /\ (responses[1].status = 400) <=> missing

\* the token matches but the mode is not 'subscribe': 403
C28_Witness ==
  /\ IsVerification
  /\ request.mode = "unsubscribe"
  /\ request.token = VerifyToken
  /\ responses = <<Forbidden403>>

\* ------------------------------------------------------------------------
\* C29: POST /webhook sends exactly one response per request: 200 once the
\* message has been processed without error, 200 for bodies that carry no
\* message, 500 when processing throws; the 200 for a voice note is never
\* sent before the processing of the voice note, its reply included, has
\* finished.
\* ------------------------------------------------------------------------

\* a POST request has been handled
IsDelivery == request.method = "POST" /\ wpc = "done"

C29_OneResponsePerPost ==
  request.method = "POST" =>
    /\ wpc # "done" => responses = <<>>
    /\ IsDelivery =>
         /\ Len(responses) = 1
         /\ request.body.shape \in NoMessageShapes => responses = <<Ok200>>
         /\ (request.body.shape = "message" /\ thrown = NoError)
              => responses = <<Ok200>>
         /\ (request.body.shape = "message" /\ thrown # NoError)
              => responses = <<Error500>>
    /\ (IsVoiceNote /\ responses = <<Ok200>>) =>
         /\ ReplySends # {}
         /\ \A i \in DOMAIN steps : steps[i].ok

\* ------------------------------------------------------------------------
\* C30: after startTimer(id), endTimer(id) returns a non-negative
\* duration, records exactly one metric named '<id>_duration_ms' and
\* removes the running timer; endTimer(id) when no timer is running for id
\* returns 0 and records no metric.
\* ------------------------------------------------------------------------

\* this step is a call of endTimer
EndsTimer == lastOp'.n = lastOp.n + 1 /\ lastOp'.op = "end"

C30_StatePart == lastOp.op = "start" => lastOp.id \in timers

C30_StepPart ==
  EndsTimer =>
    LET id == lastOp'.id
    IN  IF id \in timers
        THEN /\ returned' >= 0
             /\ returned' = clock' - startTimes[id]
             /\ metrics'[DurationMetric(id)] = metrics[DurationMetric(id)] + 1
             /\ \A name \in MetricNames \ {DurationMetric(id)} :
                  metrics'[name] = metrics[name]
             /\ timers' = timers \ {id}
        ELSE /\ returned' = 0
             /\ metrics' = metrics
             /\ timers' = timers

C30_TimerRoundTrip == [](C30_StatePart) /\ [][C30_StepPart]_vars

\* a timer was started and ended later: one duration metric, no timer
\* left, a positive duration returned
C30_Witness ==
  /\ lastOp = [op |-> "end", id |-> "stt_processing", n |-> 2]
  /\ returned = 1
  /\ metrics["stt_processing_duration_ms"] = 1
  /\ timers = {}



\* C31: each metric name holds at most 1000 entries, which are the most
\* recently recorded ones in recording order; a recording appends the new
\* entry and drops only the oldest one, and getMetricSummary answers null
\* exactly when the name holds nothing and otherwise the count of entries
\* held (the number of recordings while that is at most 1000).
InRecordingOrder(list) ==
  \A i \in 1..(Len(list) - 1) : list[i + 1] = list[i] + 1

C31_StatePart ==
  \A name \in RecordedNames :
    /\ Len(entries[name]) <= MaxMetricEntries
    /\ InRecordingOrder(entries[name])
    /\ entries[name] # <<>> =>
         /\ entries[name][1] >= 1
         /\ NextSerial(entries[name]) - 1 <= MaxMetricEntries =>
              Len(entries[name]) = NextSerial(entries[name]) - 1
         /\ NextSerial(entries[name]) - 1 > MaxMetricEntries =>
              Len(entries[name]) = MaxMetricEntries

C31_StepPart ==
  /\ recordings' # recordings =>
       \E name \in RecordedNames :
         /\ entries'[name] # <<>>
         /\ entries'[name][Len(entries'[name])] = NextSerial(entries[name])
         /\ \A other \in RecordedNames \ {name} :
              entries'[other] = entries[other]
  /\ summary' # summary =>
       /\ summary'.isNull <=>
            (summary'.name \notin RecordedNames
               \/ entries[summary'.name] = <<>>)
       /\ ~summary'.isNull =>
            summary'.count = Len(entries[summary'.name])

C31_MetricEntries == []C31_StatePart /\ [][C31_StepPart]_vars

\* C31 witness: a name holds exactly 1000 entries after more than 1000
\* recordings, and its summary has been read with count 1000.
C31_Witness ==
  /\ recordings > 0
  /\ Len(entries["error_count"]) = MaxMetricEntries
  /\ entries["error_count"][1] > 1
  /\ summary = [name |-> "error_count", isNull |-> FALSE,
                count |-> MaxMetricEntries]


\* C32: validateAudioSize(buffer, maxSize) returns isValid true exactly
\* when the argument is a Buffer of at most maxSize bytes; every rejection
\* is a returned {isValid: false, error} and nothing is thrown.
AudioSizeReturned ==
  /\ validationArgs.fn = "validateAudioSize"
  /\ validationResult # NoValidation

C32_ValidateAudioSize ==
  AudioSizeReturned =>
    /\ ~validationResult.threw
    /\ validationResult.isValid <=>
         /\ validationArgs.data.kind = "buffer"
         /\ validationArgs.data.length <= validationArgs.maxSize
    /\ ~validationResult.isValid => validationResult.error # NoError

\* C32 witness: a buffer of exactly maxSize bytes has been accepted.
C32_Witness ==
  /\ AudioSizeReturned
  /\ validationArgs.data.kind = "buffer"
  /\ validationArgs.data.length = validationArgs.maxSize
  /\ validationResult.isValid

\* C33: validateResponse(data, type) never throws; it returns
\* {isValid: false, error} for null and undefined under every type and for
\* data that does not match the named type (NaN is not a number), and
\* otherwise {isValid: true, data} with the data it was given.
MatchingKinds(dataType) ==
  CASE dataType = "string" -> {"string"}
    [] dataType = "number" -> {"number"}
    [] dataType = "array" -> {"array"}
    [] dataType = "buffer" -> {"buffer"}
    [] dataType = "object" -> {"object", "array", "buffer"}
    [] OTHER -> DataKinds \ {"undefined", "null"}

ResponseReturned ==
  /\ validationArgs.fn = "validateResponse"
  /\ validationResult # NoValidation

C33_ValidateResponse ==
  ResponseReturned =>
    /\ ~validationResult.threw
    /\ IF validationArgs.data.kind \in MatchingKinds(validationArgs.dataType)
       THEN /\ validationResult.isValid
            /\ validationResult.data = validationArgs.data
       ELSE /\ ~validationResult.isValid
            /\ validationResult.error # NoError

\* C33 witness: NaN has been rejected as a number.
C33_Witness ==
  /\ ResponseReturned
  /\ validationArgs.data.kind = "NaN"
  /\ validationArgs.dataType = "number"
  /\ ~validationResult.isValid
  /\ validationResult.error = ErrNotNumber


\* ------------------------------------------------------------------------
\* C34: admission reports two distinct reasons: a payload larger than the
\* configured maximum is rejected with the size-limit reason in every
\* memory state, and the insufficient-memory reason is reported only for
\* payloads within the size limit.
\* ------------------------------------------------------------------------

C34_DistinctReasons ==
  /\ (pc = "Done" /\ audioBuffer # NoBuffer /\ audioBuffer > maxFileSize)
       => (outcome = "failed" /\ error = ErrTooLarge)
  /\ (RejectedAtAdmission /\ error = ErrInsufficientMemory)
       => audioBuffer <= maxFileSize

\* ------------------------------------------------------------------------
\* C37: when a run returns or throws, the monitoring service holds no
\* running timer that the run started: every startTimer of the run has been
\* matched by an endTimer on every exit path.
\* ------------------------------------------------------------------------

C37_NoTimerLeftRunning == pc = "Done" => timers = {}


\* ------------------------------------------------------------------------
\* C38: the voice pipeline is started only for messages of type 'audio',
\* and only after the acknowledgment has been sent, the media URL fetched
\* and the media downloaded, in that order, each without failure; a text
\* message gets exactly one fixed hint reply and no pipeline run; a message
\* of any other type gets no reply and no pipeline run.
\* ------------------------------------------------------------------------

\* voiceProcessor.processVoiceNote has been called
PipelineStarted ==
  \/ wpc = "pipeline"
  \/ \E i \in DOMAIN steps : steps[i].call = "processVoiceNote"

\* the three calls that precede the pipeline, all fulfilled
Preparation ==
  <<Step("sendMessage", AckText, TRUE), Step("getMediaUrl", "mediaId", TRUE),
    Step("downloadMedia", "mediaUrl", TRUE)>>

C38_PipelineOnlyForAudio ==
  /\ PipelineStarted =>
       /\ request.method = "POST"
       /\ request.body.shape = "message"
       /\ request.body.type = "audio"
       /\ Len(steps) >= Len(Preparation)
       /\ SubSeq(steps, 1, Len(Preparation)) = Preparation
  /\ (request.method = "POST" /\ request.body.type = "text") =>
       /\ ~PipelineStarted
       /\ wpc # "done" => steps = <<>>
       /\ wpc = "done" =>
            /\ Len(steps) = 1
            /\ steps[1].call = "sendMessage" /\ steps[1].arg = ThanksText
  /\ (request.method = "POST" /\ request.body.type \notin {"audio", "text"}) =>
       /\ ~PipelineStarted
       /\ steps = <<>>

\* C38 witness: the pipeline has been called for an audio message after
\* the three preceding calls.
C38_Witness ==
  /\ wpc = "pipeline"
  /\ request.body.type = "audio"
  /\ steps = Preparation


\* ------------------------------------------------------------------------
\* C36: each run records exactly one 'voice_processing_duration_ms'
\* metric, measuring the time from its own start to its own end, also when
\* runs overlap: no run's endTimer finds its timer missing, and a timer
\* started by one run is not overwritten or consumed by another.
\* ------------------------------------------------------------------------

EndedRuns == {r \in Runs : runTimes[r].pc = "ended"}

C36_OneDurationPerRun ==
  /\ metrics[DurationMetric("voice_processing")] = Cardinality(EndedRuns)
  /\ \A r \in EndedRuns :
       /\ runTimes[r].found
       /\ runTimes[r].measured = runTimes[r].ended - runTimes[r].started


\* ------------------------------------------------------------------------
\* C35: the caller observes the outcome of a run only after the cleanup
\* step has finished: the translated reply or the apology for a voice note
\* is sent only after the removal of every file the run staged has been
\* performed or attempted.
\* ------------------------------------------------------------------------

\* the webhook has seen the run settle: the reply or the apology for it is
\* being sent or has been sent
OutcomeObserved ==
  \E i \in DOMAIN steps : steps[i].call = "processVoiceNote"

\* the files whose removal the run has attempted
RemovalAttempted == IF cleanups > 0 THEN {processedFilePath} ELSE {}

C35_ReplyAfterCleanup ==
  OutcomeObserved =>
    /\ pc = "Done"
    /\ wrote \subseteq RemovalAttempted

====
